---- MODULE Spec2Model ----
(***************************************************************************)
(* Status-LED arbitration and colour-override engine of the OpenEVSE       *)
(* gateway (LedManagerTask), WS2812FX effects backend.                     *)
(*                                                                         *)
(* The arbiter, the rendering pass and the scheduler glue are translated   *)
(* from src/src/LedManagerTask.cpp.  The override record, its constructor  *)
(* and isExpired() are translated from src/src/LedManagerTask.h.  The      *)
(* override operations that the header only declares (setColorOverride,    *)
(* clearColorOverride, checkOverrideTimeouts, getOverrideIndex,            *)
(* applyColorOverride, getEffectiveBrightness) have no body in the         *)
(* sources; they are modelled from the specification and the feature       *)
(* description.                                                            *)
(***************************************************************************)
EXTENDS Integers, Sequences, FiniteSets, TLC

VARIABLES
  state,          \* LedState state
  wifiClient,     \* bool wifiClient
  wifiConnected,  \* bool wifiConnected
  flashState,     \* bool flashState
  brightness,     \* uint8_t brightness (stored as passed value + 1)
  overrides,      \* ColorOverride _overrides[8]
  evse,           \* what the EvseManager collaborator currently reports
  maxHardwareCurrent, \* _evse->getMaxHardwareCurrent()
  triggered,      \* onStateChange.IsTriggered()
  woken,          \* MicroTask.wakeTask(this) was called, loop() not yet run
  delay,          \* value returned by the last loop()
  fx,             \* colour, brightness, mode and speed held by ws2812fx
  now,            \* millis()
  nTicks,         \* number of clock advances so far
  nSets,          \* number of setColorOverride calls so far
  writing,        \* where loop() stands inside setEvseAndWifiRGB, and its arguments
  seen,           \* colour, speed and mode ws2812fx.service() read last
  rendered,       \* the LedState the last loop() pass rendered
  atTest,         \* what arbitration gave when the running self-test began
  lastOp          \* the operation executed last and what it returned

vars == <<state, wifiClient, wifiConnected, flashState, brightness, overrides,
          evse, maxHardwareCurrent, triggered, woken, delay, fx, now, nTicks, nSets,
          writing, seen, rendered, atTest, lastOp>>

-----------------------------------------------------------------------------
(* Bounds of the model *)

MaxTicks == 3
MaxSets == 2

-----------------------------------------------------------------------------
(* enum LedState *)

LedState_Test_Red == 0
LedState_Test_Green == 1
LedState_Test_Blue == 2
LedState_Off == 3
LedState_Evse_State == 4
LedState_WiFi_Access_Point_Waiting == 5
LedState_WiFi_Access_Point_Connected == 6
LedState_WiFi_Client_Connecting == 7
LedState_WiFi_Client_Connected == 8

TestStates == {LedState_Test_Red, LedState_Test_Green, LedState_Test_Blue}

WiFiStates == {LedState_WiFi_Access_Point_Waiting,
               LedState_WiFi_Access_Point_Connected,
               LedState_WiFi_Client_Connecting,
               LedState_WiFi_Client_Connected}

(* LCD colour classes; the index of each colour in status_colour_map[] *)

OPENEVSE_LCD_OFF == 0
OPENEVSE_LCD_RED == 1
OPENEVSE_LCD_GREEN == 2
OPENEVSE_LCD_YELLOW == 3
OPENEVSE_LCD_BLUE == 4
OPENEVSE_LCD_VIOLET == 5
OPENEVSE_LCD_TEAL == 6
OPENEVSE_LCD_WHITE == 7

(* Timing and speed constants *)

CONNECTING_FLASH_TIME == 450
CONNECTED_FLASH_TIME == 250
DEFAULT_FX_SPEED == 1000
CONNECTING_FX_SPEED == 2000
CONNECTED_FX_SPEED == 1000
TEST_LED_TIME == 500

(* MicroTask.Infinate, the all-ones delay: sleep until explicitly woken *)
Infinate == -1

(* Clock values are counted in units of 2^7 ms, which divides both an hour
   (3600000 ms) and the 2^32 ms period of the 32-bit unsigned long millis()
   counter, so that the modular arithmetic of the code is kept exactly *)
MillisUnit == 2^7
ULongMod == 2^25
U16Mod == 2^16
U8Mod == 2^8

rgb(r, g, b) == r * 65536 + g * 256 + b

BLACK == rgb(0, 0, 0)
RED == rgb(255, 0, 0)
GREEN == rgb(0, 255, 0)
BLUE == rgb(0, 0, 255)

(* Configured colours led_color_*, at the values of the built-in table *)
led_color_off == rgb(0, 0, 0)
led_color_red == rgb(255, 99, 71)
led_color_green == rgb(50, 205, 50)
led_color_yellow == rgb(255, 215, 0)
led_color_blue == rgb(30, 144, 255)
led_color_violet == rgb(186, 85, 211)
led_color_teal == rgb(72, 209, 204)
led_color_white == rgb(255, 255, 255)

(* The colour map with a dark fallback for unknown colour classes *)
status_colour_map_darkFallback(lcdcol) ==
  CASE lcdcol = OPENEVSE_LCD_OFF -> led_color_off
    [] lcdcol = OPENEVSE_LCD_RED -> led_color_red
    [] lcdcol = OPENEVSE_LCD_GREEN -> led_color_green
    [] lcdcol = OPENEVSE_LCD_YELLOW -> led_color_yellow
    [] lcdcol = OPENEVSE_LCD_BLUE -> led_color_blue
    [] lcdcol = OPENEVSE_LCD_VIOLET -> led_color_violet
    [] lcdcol = OPENEVSE_LCD_TEAL -> led_color_teal
    [] lcdcol = OPENEVSE_LCD_WHITE -> led_color_white
    [] OTHER -> led_color_off

status_colour_map(lcdcol) ==
  CASE lcdcol = OPENEVSE_LCD_OFF -> led_color_off
    [] lcdcol = OPENEVSE_LCD_RED -> led_color_red
    [] lcdcol = OPENEVSE_LCD_GREEN -> led_color_green
    [] lcdcol = OPENEVSE_LCD_YELLOW -> led_color_yellow
    [] lcdcol = OPENEVSE_LCD_BLUE -> led_color_blue
    [] lcdcol = OPENEVSE_LCD_VIOLET -> led_color_violet
    [] lcdcol = OPENEVSE_LCD_TEAL -> led_color_teal
    [] lcdcol = OPENEVSE_LCD_WHITE -> led_color_white
    [] OTHER -> led_color_white

(* The colour map of the build without the effects engine *)
get_colour_map_entry(index) ==
  CASE index = OPENEVSE_LCD_OFF -> led_color_off
    [] index = OPENEVSE_LCD_RED -> led_color_red
    [] index = OPENEVSE_LCD_GREEN -> led_color_green
    [] index = OPENEVSE_LCD_YELLOW -> led_color_yellow
    [] index = OPENEVSE_LCD_BLUE -> led_color_blue
    [] index = OPENEVSE_LCD_VIOLET -> led_color_violet
    [] index = OPENEVSE_LCD_TEAL -> led_color_teal
    [] index = OPENEVSE_LCD_WHITE -> led_color_white
    [] OTHER -> led_color_white

-----------------------------------------------------------------------------
(* The EvseManager collaborator *)

EvseConditions == {"ready", "waiting", "charging", "error"}

(* getStateColour() is the collaborator's choice: any colour class *)
LcdColours == {OPENEVSE_LCD_RED, OPENEVSE_LCD_GREEN, OPENEVSE_LCD_YELLOW,
               OPENEVSE_LCD_TEAL}

(* getChargeCurrent() and getMaxHardwareCurrent(), in amperes *)
ChargeCurrents == {0, 16, 32}
MaxHardwareCurrents == {0, 32}

EvseReports ==
  {r \in [cond : EvseConditions, lcdCol : LcdColours, amps : ChargeCurrents] :
     r.amps # 0 => r.cond = "charging"}

(* The two accessors are separate calls; "faultWhileCharging" stands for an
   EVSE answering true to both *)
isCharging(e) == e.cond \in {"charging", "faultWhileCharging"}
isError(e) == e.cond \in {"error", "faultWhileCharging"}
getStateColour(e) == e.lcdCol

-----------------------------------------------------------------------------
(* Priority arbiter *)

(* Plausible slips in getPriority() *)
getPriority_clientAboveCharge(priorityState, err) ==
  CASE priorityState = LedState_Off -> 0
    [] priorityState = LedState_WiFi_Client_Connected -> 60
    [] priorityState = LedState_Evse_State -> (IF err THEN 1000 ELSE 50)
    [] priorityState \in {LedState_WiFi_Access_Point_Waiting,
                          LedState_WiFi_Access_Point_Connected,
                          LedState_WiFi_Client_Connecting} -> 100
    [] priorityState \in TestStates -> 2000
    [] OTHER -> 0

getPriority_lowTest(priorityState, err) ==
  CASE priorityState = LedState_Off -> 0
    [] priorityState = LedState_WiFi_Client_Connected -> 10
    [] priorityState = LedState_Evse_State -> (IF err THEN 1000 ELSE 50)
    [] priorityState \in {LedState_WiFi_Access_Point_Waiting,
                          LedState_WiFi_Access_Point_Connected,
                          LedState_WiFi_Client_Connecting} -> 100
    [] priorityState \in TestStates -> 200
    [] OTHER -> 0

getPriority_swapped(priorityState, err) ==
  CASE priorityState = LedState_Off -> 0
    [] priorityState = LedState_WiFi_Client_Connected -> 10
    [] priorityState = LedState_Evse_State -> (IF err THEN 50 ELSE 1000)
    [] priorityState \in {LedState_WiFi_Access_Point_Waiting,
                          LedState_WiFi_Access_Point_Connected,
                          LedState_WiFi_Client_Connecting} -> 100
    [] priorityState \in TestStates -> 2000
    [] OTHER -> 0

getPriority(priorityState, err) ==
  CASE priorityState = LedState_Off -> 0
    [] priorityState = LedState_WiFi_Client_Connected -> 10
    [] priorityState = LedState_Evse_State -> (IF err THEN 1000 ELSE 50)
    [] priorityState \in {LedState_WiFi_Access_Point_Waiting,
                          LedState_WiFi_Access_Point_Connected,
                          LedState_WiFi_Client_Connecting} -> 100
    [] priorityState \in TestStates -> 2000
    [] OTHER -> 0

wifiStateOf(client, connected) ==
  IF client
    THEN (IF connected THEN LedState_WiFi_Client_Connected
                       ELSE LedState_WiFi_Client_Connecting)
    ELSE (IF connected THEN LedState_WiFi_Access_Point_Connected
                       ELSE LedState_WiFi_Access_Point_Waiting)

(* A plausible slip in setNewState(): the network priority is compared with
   the charge priority instead of the running maximum *)
setNewState_wifiVsEvse(st, err, client, connected) ==
  LET newState0 == IF st < LedState_Off THEN st ELSE LedState_Off
      priority0 == getPriority(newState0, err)
      evsePriority == getPriority(LedState_Evse_State, err)
      newState1 == IF evsePriority > priority0 THEN LedState_Evse_State
                                               ELSE newState0
      wifiState == wifiStateOf(client, connected)
      wifiPriority == getPriority(wifiState, err)
  IN IF wifiPriority > evsePriority THEN wifiState ELSE newState1

(* The charge display is left out of the comparison *)
setNewState_noEvse(st, err, client, connected) ==
  LET newState0 == IF st < LedState_Off THEN st ELSE LedState_Off
      priority0 == getPriority(newState0, err)
      wifiState == wifiStateOf(client, connected)
      wifiPriority == getPriority(wifiState, err)
  IN IF wifiPriority > priority0 THEN wifiState ELSE newState0

(* Arbitration that starts from the displayed state instead of LedState_Off *)
setNewState_sticky(st, err, client, connected) ==
  LET newState0 == st
      priority0 == getPriority(newState0, err)
      evsePriority == getPriority(LedState_Evse_State, err)
      newState1 == IF evsePriority > priority0 THEN LedState_Evse_State
                                               ELSE newState0
      priority1 == IF evsePriority > priority0 THEN evsePriority ELSE priority0
      wifiState == wifiStateOf(client, connected)
      wifiPriority == getPriority(wifiState, err)
  IN IF wifiPriority > priority1 THEN wifiState ELSE newState1

(* The state setNewState() leaves in `state` *)
setNewState(st, err, client, connected) ==
  LET newState0 == IF st < LedState_Off THEN st ELSE LedState_Off
      priority0 == getPriority(newState0, err)
      evsePriority == getPriority(LedState_Evse_State, err)
      newState1 == IF evsePriority > priority0 THEN LedState_Evse_State
                                               ELSE newState0
      priority1 == IF evsePriority > priority0 THEN evsePriority ELSE priority0
      wifiState == wifiStateOf(client, connected)
      wifiPriority == getPriority(wifiState, err)
  IN IF wifiPriority > priority1 THEN wifiState ELSE newState1

(* The wake is scheduled on every change of state, wake or not *)
wakeAfterNewState_ignoresFlag(st, newSt, wake, pending) ==
  IF newSt # st THEN TRUE ELSE pending

(* Whether a wake is pending after setNewState(wake) *)
wakeAfterNewState(st, newSt, wake, pending) ==
  IF newSt # st /\ wake THEN TRUE ELSE pending

-----------------------------------------------------------------------------
(* Override store *)

(* ColorOverride(): the record a slot starts as *)
ColorOverrideInit ==
  [active |-> FALSE, color |-> 0, brightness |-> 0, timeout_ms |-> 0,
   set_time_ms |-> 0]

(* An override with no timeout is treated like a timed one *)
isExpired_noForever(o, millis) ==
  IF ~o.active THEN FALSE
  ELSE ((millis - o.set_time_ms) % ULongMod) >= o.timeout_ms

(* The deadline itself does not count as elapsed *)
isExpired_strict(o, millis) ==
  IF ~o.active \/ o.timeout_ms = 0 THEN FALSE
  ELSE ((millis - o.set_time_ms) % ULongMod) > o.timeout_ms

isExpired(o, millis) ==
  IF ~o.active \/ o.timeout_ms = 0
    THEN FALSE
    ELSE ((millis - o.set_time_ms) % ULongMod) >= o.timeout_ms

Slots == 0..7

(* One for each: off, error, ready, waiting, charging, custom, default, all *)
CategoryNames ==
  <<"off", "error", "ready", "waiting", "charging", "custom", "default", "all">>

AllSlot == 7

(* Index of the slot a state string names, -1 when it names none *)
(* An unknown name falls back to the 'default' slot *)
getOverrideIndex_coerced(stateStr) ==
  IF \E i \in 1..Len(CategoryNames) : CategoryNames[i] = stateStr
    THEN (CHOOSE i \in 1..Len(CategoryNames) : CategoryNames[i] = stateStr) - 1
    ELSE 6

getOverrideIndex(stateStr) ==
  IF \E i \in 1..Len(CategoryNames) : CategoryNames[i] = stateStr
    THEN (CHOOSE i \in 1..Len(CategoryNames) : CategoryNames[i] = stateStr) - 1
    ELSE -1

(* One hour, in clock units *)
MS_PER_HOUR == 3600000 \div MillisUnit

(* The record setColorOverride() stores *)
newOverride(color, bright, timeout_hours, millis) ==
  [active |-> TRUE, color |-> color, brightness |-> bright,
   timeout_ms |-> (timeout_hours * MS_PER_HOUR) % ULongMod,
   set_time_ms |-> millis]

(* Setting one slot drops the overrides of the other categories *)
storeAfterSet_single(ov, idx, color, bright, timeout_hours, millis) ==
  [i \in Slots |-> IF i = idx
                     THEN newOverride(color, bright, timeout_hours, millis)
                     ELSE ColorOverrideInit]

(* The store after setColorOverride() on slot idx *)
storeAfterSet(ov, idx, color, bright, timeout_hours, millis) ==
  [ov EXCEPT ![idx] = newOverride(color, bright, timeout_hours, millis)]

(* Clearing one slot resets the whole table *)
storeAfterClear_everySlot(ov, idx) == [i \in Slots |-> ColorOverrideInit]

(* The store after clearColorOverride() on slot idx *)
storeAfterClear(ov, idx) == [ov EXCEPT ![idx] = ColorOverrideInit]

(* The store after clearColorOverride(nullptr) *)
storeAfterClearAll(ov) == [i \in Slots |-> ColorOverrideInit]

(* The store after checkOverrideTimeouts() *)
checkOverrideTimeouts_everyTimed(ov, millis) ==
  [i \in Slots |-> IF ov[i].active /\ ov[i].timeout_ms # 0
                     THEN ColorOverrideInit ELSE ov[i]]

checkOverrideTimeouts(ov, millis) ==
  [i \in Slots |-> IF isExpired(ov[i], millis) THEN ColorOverrideInit ELSE ov[i]]

(* The slot that belongs to an LCD colour class: the colour each category
   normally shows (off, red, green, yellow, teal, violet, white); blue is
   unused in normal operation and has no slot *)
categoryOfColour(lcdCol) ==
  CASE lcdCol = OPENEVSE_LCD_OFF -> 0
    [] lcdCol = OPENEVSE_LCD_RED -> 1
    [] lcdCol = OPENEVSE_LCD_GREEN -> 2
    [] lcdCol = OPENEVSE_LCD_YELLOW -> 3
    [] lcdCol = OPENEVSE_LCD_TEAL -> 4
    [] lcdCol = OPENEVSE_LCD_VIOLET -> 5
    [] lcdCol = OPENEVSE_LCD_WHITE -> 6
    [] OTHER -> -1

(* The category's own slot is looked at before the 'all' slot *)
activeSlot_specificFirst(ov, lcdCol) ==
  LET idx == categoryOfColour(lcdCol)
  IN IF idx >= 0 /\ ov[idx].active THEN idx
     ELSE IF ov[AllSlot].active THEN AllSlot
     ELSE -1

(* The slot that decides the colour of lcdCol, -1 when none is active *)
activeSlot(ov, lcdCol) ==
  LET idx == categoryOfColour(lcdCol)
  IN IF ov[AllSlot].active THEN AllSlot
     ELSE IF idx >= 0 /\ ov[idx].active THEN idx
     ELSE -1

applyColorOverride(ov, lcdCol) ==
  LET idx == activeSlot(ov, lcdCol)
  IN IF idx >= 0 THEN ov[idx].color ELSE status_colour_map(lcdCol)

(* The stored value passed on minus one, the wrapped 0 not mapped back *)
fxBrightnessOf_noWrap(stored) == IF stored = 0 THEN 0 ELSE stored - 1

(* The stored value is handed over as it is, without undoing the offset *)
fxBrightnessOf_raw(stored) == stored

(* The brightness loop() hands to the effects engine for a stored value *)
fxBrightnessOf(stored) == IF stored = 0 THEN 255 ELSE stored - 1

(* The override's own brightness is never looked at *)
getEffectiveBrightness_global(ov, lcdCol, stored) == fxBrightnessOf(stored)

getEffectiveBrightness(ov, lcdCol, stored) ==
  LET idx == activeSlot(ov, lcdCol)
  IN IF idx >= 0 /\ ov[idx].brightness # 0 THEN ov[idx].brightness
     ELSE fxBrightnessOf(stored)

-----------------------------------------------------------------------------
(* Inputs the callers pass *)

(* LED_DEFAULT_BRIGHTNESS and the values passed to setBrightness() *)
BrightnessInputs == {128, 255}

(* Arguments of setColorOverride(): state string, colour, brightness, hours *)
StateStrings == {CategoryNames[i] : i \in 1..Len(CategoryNames)} \cup {"bogus"}
OverrideColours == {rgb(128, 0, 128), rgb(0, 0, 255)}
OverrideBrightnesses == {0, 200}
TimeoutHours == {0, 1}

(* Clock advances: a third of an hour, an hour, and one hour short of a
   full wrap of the 32-bit millisecond counter *)
TickSteps == {MS_PER_HOUR \div 3, MS_PER_HOUR, ULongMod - MS_PER_HOUR}

uint8(n) == n % U8Mod
uint16(n) == n % U16Mod

-----------------------------------------------------------------------------
(* Construction, begin() and setup() *)

(* loop() is not inside setEvseAndWifiRGB() *)
NotWriting == [at |-> "none", mode |-> "STATIC", speed |-> DEFAULT_FX_SPEED]

(* No self-test is running, none has just ended *)
NoTest == LedState_Off

(* The record of the self-test's start is kept until the operation after
   the Blue step *)
atTestKept == IF state' \in TestStates THEN atTest ELSE NoTest

InitWith(reports, maxCurrents, brightnesses) ==
  /\ state = LedState_Test_Red
  /\ wifiClient = FALSE
  /\ wifiConnected = FALSE
  /\ flashState = FALSE
  /\ brightness \in brightnesses
  /\ overrides = [i \in Slots |-> ColorOverrideInit]
  /\ evse \in reports
  /\ maxHardwareCurrent \in maxCurrents
  /\ triggered = FALSE
  /\ woken = TRUE
  /\ delay = Infinate
  /\ fx = [color |-> BLACK, brightness |-> brightness, mode |-> "STATIC",
           speed |-> DEFAULT_FX_SPEED]
  /\ now = 0
  /\ nTicks = 0
  /\ nSets = 0
  /\ writing = NotWriting
  /\ rendered = LedState_Off
  /\ atTest = setNewState(LedState_Off, isError(evse), FALSE, FALSE)
  /\ seen = [color |-> BLACK, speed |-> DEFAULT_FX_SPEED, mode |-> "STATIC"]
  /\ lastOp = [op |-> "begin", ok |-> TRUE]

-----------------------------------------------------------------------------
(* The rendering pass, loop() *)

(* The speed formula falling back to the slow network speed *)
fxSpeedOf_slowFallback(amps, maxAmps) ==
  IF maxAmps = 0 THEN CONNECTING_FX_SPEED
  ELSE uint16(2000 - ((amps \div maxAmps) * 1000))

(* speed = 2000 - ((getChargeCurrent() / getMaxHardwareCurrent()) * 1000) *)
fxSpeedOf(amps, maxAmps) ==
  IF maxAmps = 0 THEN DEFAULT_FX_SPEED
  ELSE uint16(2000 - ((amps \div maxAmps) * 1000))

(* setEvseAndWifiRGB(): colour, speed and mode are written to the engine *)
setEvseAndWifiRGB(f, evseColor, mode, speed) ==
  [f EXCEPT !.color = evseColor, !.speed = speed, !.mode = mode]

setAllRGB(f, color, mode, speed) == setEvseAndWifiRGB(f, color, mode, speed)

(* The colour loop() renders for the colour class the EVSE reports *)
loopColour(ov, lcdCol) == status_colour_map(lcdCol)

(* The brightness loop() hands to the effects engine *)
loopBrightness(ov, lcdCol, stored) == fxBrightnessOf(stored)

(* The fault tested before the charge *)
renderStatus_errorFirst(f, st, ov, e, maxAmps, stored) ==
  LET lcdCol == getStateColour(e)
      col == loopColour(ov, lcdCol)
      speed == fxSpeedOf(e.amps, maxAmps)
      f1 == [f EXCEPT !.brightness = loopBrightness(ov, lcdCol, stored)]
  IN CASE st = LedState_Evse_State ->
            IF isError(e) THEN setAllRGB(f1, col, "FADE", DEFAULT_FX_SPEED)
            ELSE IF isCharging(e) THEN setAllRGB(f1, col, "COLOR_WIPE", speed)
            ELSE setAllRGB(f1, col, "STATIC", DEFAULT_FX_SPEED)
       [] st = LedState_WiFi_Access_Point_Waiting ->
            setEvseAndWifiRGB(f1, col, "BLINK", CONNECTING_FX_SPEED)
       [] st = LedState_WiFi_Access_Point_Connected ->
            setEvseAndWifiRGB(f1, col, "FADE", CONNECTED_FX_SPEED)
       [] st = LedState_WiFi_Client_Connecting ->
            setEvseAndWifiRGB(f1, col, "FADE", CONNECTING_FX_SPEED)
       [] st = LedState_WiFi_Client_Connected ->
            setEvseAndWifiRGB(f1, col, "FADE", CONNECTED_FX_SPEED)
       [] OTHER -> f1

(* The engine after loop() has rendered state st (not Off, not a self-test) *)
renderStatus(f, st, ov, e, maxAmps, stored) ==
  LET lcdCol == getStateColour(e)
      col == loopColour(ov, lcdCol)
      speed == fxSpeedOf(e.amps, maxAmps)
      f1 == [f EXCEPT !.brightness = loopBrightness(ov, lcdCol, stored)]
  IN CASE st = LedState_Evse_State ->
            IF isCharging(e) THEN setAllRGB(f1, col, "COLOR_WIPE", speed)
            ELSE IF isError(e) THEN setAllRGB(f1, col, "FADE", DEFAULT_FX_SPEED)
            ELSE setAllRGB(f1, col, "STATIC", DEFAULT_FX_SPEED)
       [] st = LedState_WiFi_Access_Point_Waiting ->
            setEvseAndWifiRGB(f1, col, "BLINK", CONNECTING_FX_SPEED)
       [] st = LedState_WiFi_Access_Point_Connected ->
            setEvseAndWifiRGB(f1, col, "FADE", CONNECTED_FX_SPEED)
       [] st = LedState_WiFi_Client_Connecting ->
            setEvseAndWifiRGB(f1, col, "FADE", CONNECTING_FX_SPEED)
       [] st = LedState_WiFi_Client_Connected ->
            setEvseAndWifiRGB(f1, col, "FADE", CONNECTED_FX_SPEED)
       [] OTHER -> f1

(* The self-test cases sleep until woken like the Off case *)
loopDelay_testSleeps(st) ==
  CASE st = LedState_WiFi_Access_Point_Waiting -> CONNECTING_FLASH_TIME
    [] st = LedState_WiFi_Access_Point_Connected -> CONNECTED_FLASH_TIME
    [] st = LedState_WiFi_Client_Connecting -> CONNECTING_FLASH_TIME
    [] OTHER -> Infinate

(* The delay loop() returns after rendering state st *)
loopDelay(st) ==
  CASE st = LedState_Off -> Infinate
    [] st \in TestStates -> TEST_LED_TIME
    [] st = LedState_Evse_State -> Infinate
    [] st = LedState_WiFi_Access_Point_Waiting -> CONNECTING_FLASH_TIME
    [] st = LedState_WiFi_Access_Point_Connected -> CONNECTED_FLASH_TIME
    [] st = LedState_WiFi_Client_Connecting -> CONNECTING_FLASH_TIME
    [] st = LedState_WiFi_Client_Connected -> Infinate
    [] OTHER -> Infinate

(* A Blue step that arbitrates on what the inputs were when the self-test
   began *)
Loop_staleInputs ==
  /\ woken \/ delay # Infinate
  /\ LET st == IF triggered
                 THEN setNewState(state, isError(evse), wifiClient, wifiConnected)
                 ELSE state
     IN /\ state' =
             CASE st = LedState_Test_Red -> LedState_Test_Green
               [] st = LedState_Test_Green -> LedState_Test_Blue
               [] st = LedState_Test_Blue ->
                    atTest
               [] OTHER -> st
        /\ fx' =
             CASE st = LedState_Off -> [fx EXCEPT !.color = BLACK]
               [] st = LedState_Test_Red -> [fx EXCEPT !.color = RED]
               [] st = LedState_Test_Green -> [fx EXCEPT !.color = GREEN]
               [] st = LedState_Test_Blue -> [fx EXCEPT !.color = BLUE]
               [] OTHER -> renderStatus(fx, st, overrides, evse,
                                        maxHardwareCurrent, brightness)
        /\ flashState' =
             IF st \in {LedState_WiFi_Access_Point_Connected,
                        LedState_WiFi_Client_Connecting}
               THEN ~flashState ELSE flashState
        /\ delay' = loopDelay(st)
        /\ lastOp' = [op |-> "loop", ok |-> TRUE]
        /\ rendered' = st
        /\ atTest' = IF st \in TestStates THEN atTest ELSE NoTest
        /\ woken' =
             LET w == IF triggered
                        THEN wakeAfterNewState(state, st, FALSE, FALSE)
                        ELSE FALSE
             IN IF st = LedState_Test_Blue
                  THEN wakeAfterNewState(LedState_Off, state', FALSE, w)
                  ELSE w
  /\ triggered' = FALSE
  /\ UNCHANGED <<wifiClient, wifiConnected, brightness, overrides, evse,
                 maxHardwareCurrent, now, nTicks, nSets,
                 writing, seen>>

Loop ==
  /\ woken \/ delay # Infinate
  /\ LET st == IF triggered
                 THEN setNewState(state, isError(evse), wifiClient, wifiConnected)
                 ELSE state
     IN /\ state' =
             CASE st = LedState_Test_Red -> LedState_Test_Green
               [] st = LedState_Test_Green -> LedState_Test_Blue
               [] st = LedState_Test_Blue ->
                    setNewState(LedState_Off, isError(evse), wifiClient,
                                wifiConnected)
               [] OTHER -> st
        /\ fx' =
             CASE st = LedState_Off -> [fx EXCEPT !.color = BLACK]
               [] st = LedState_Test_Red -> [fx EXCEPT !.color = RED]
               [] st = LedState_Test_Green -> [fx EXCEPT !.color = GREEN]
               [] st = LedState_Test_Blue -> [fx EXCEPT !.color = BLUE]
               [] OTHER -> renderStatus(fx, st, overrides, evse,
                                        maxHardwareCurrent, brightness)
        /\ flashState' =
             IF st \in {LedState_WiFi_Access_Point_Connected,
                        LedState_WiFi_Client_Connecting}
               THEN ~flashState ELSE flashState
        /\ delay' = loopDelay(st)
        /\ lastOp' = [op |-> "loop", ok |-> TRUE]
        /\ rendered' = st
        /\ atTest' = IF st \in TestStates THEN atTest ELSE NoTest
        /\ woken' =
             LET w == IF triggered
                        THEN wakeAfterNewState(state, st, FALSE, FALSE)
                        ELSE FALSE
             IN IF st = LedState_Test_Blue
                  THEN wakeAfterNewState(LedState_Off, state', FALSE, w)
                  ELSE w
  /\ triggered' = FALSE
  /\ UNCHANGED <<wifiClient, wifiConnected, brightness, overrides, evse,
                 maxHardwareCurrent, now, nTicks, nSets,
                 writing, seen>>

-----------------------------------------------------------------------------
(* loop() on the effects engine store by store, and the service task *)

(* The state loop() renders: the arbiter's when a notification is pending *)
LoopState ==
  IF triggered
    THEN setNewState(state, isError(evse), wifiClient, wifiConnected)
    ELSE state

StatusStates == {LedState_Evse_State} \cup WiFiStates

(* The colour, speed and mode of an engine record *)
Tuple(f) == [color |-> f.color, speed |-> f.speed, mode |-> f.mode]

(* The first store with the other two done in the same step *)
LoopSetColor_allAtOnce ==
  /\ writing.at = "none"
  /\ woken \/ delay # Infinate
  /\ LoopState \in StatusStates
  /\ LET target == renderStatus(fx, LoopState, overrides, evse,
                                maxHardwareCurrent, brightness)
     IN /\ fx' = target
        /\ writing' = [at |-> "setSpeed", mode |-> target.mode,
                       speed |-> target.speed]
  /\ state' = LoopState
  /\ triggered' = FALSE
  /\ woken' = IF triggered
                THEN wakeAfterNewState(state, LoopState, FALSE, FALSE)
                ELSE FALSE
  /\ lastOp' = [op |-> "setColor", ok |-> TRUE]
  /\ UNCHANGED <<wifiClient, wifiConnected, flashState, brightness, overrides,
                 evse, maxHardwareCurrent, delay, now, nTicks, nSets, seen,
                 rendered>>
  /\ atTest' = atTestKept

(* loop() on a status state up to the first store of setEvseAndWifiRGB():
   arbitration, ws2812fx.setBrightness() and ws2812fx.setColor() *)
LoopSetColor ==
  /\ writing.at = "none"
  /\ woken \/ delay # Infinate
  /\ LoopState \in StatusStates
  /\ LET target == renderStatus(fx, LoopState, overrides, evse,
                                maxHardwareCurrent, brightness)
     IN /\ fx' = [fx EXCEPT !.brightness = target.brightness,
                            !.color = target.color]
        /\ writing' = [at |-> "setSpeed", mode |-> target.mode,
                       speed |-> target.speed]
  /\ state' = LoopState
  /\ triggered' = FALSE
  /\ woken' = IF triggered
                THEN wakeAfterNewState(state, LoopState, FALSE, FALSE)
                ELSE FALSE
  /\ lastOp' = [op |-> "setColor", ok |-> TRUE]
  /\ UNCHANGED <<wifiClient, wifiConnected, flashState, brightness, overrides,
                 evse, maxHardwareCurrent, delay, now, nTicks, nSets, seen,
                 rendered>>
  /\ atTest' = atTestKept

(* The second store: ws2812fx.setSpeed(speed) *)
LoopSetSpeed ==
  /\ writing.at = "setSpeed"
  /\ fx' = [fx EXCEPT !.speed = writing.speed]
  /\ writing' = [writing EXCEPT !.at = "setMode"]
  /\ lastOp' = [op |-> "setSpeed", ok |-> TRUE]
  /\ UNCHANGED <<state, wifiClient, wifiConnected, flashState, brightness,
                 overrides, evse, maxHardwareCurrent, triggered, woken, delay,
                 now, nTicks, nSets, seen,
                 rendered>>
  /\ atTest' = atTestKept

(* The third store, ws2812fx.setMode(mode) when the mode differs, and the
   rest of the pass: flashState and the returned delay *)
LoopSetMode ==
  /\ writing.at = "setMode"
  /\ fx' = IF fx.mode # writing.mode
             THEN [fx EXCEPT !.mode = writing.mode]
             ELSE fx
  /\ writing' = NotWriting
  /\ flashState' =
       IF state \in {LedState_WiFi_Access_Point_Connected,
                     LedState_WiFi_Client_Connecting}
         THEN ~flashState ELSE flashState
  /\ delay' = loopDelay(state)
  /\ lastOp' = [op |-> "loop", ok |-> TRUE]
  /\ rendered' = state
  /\ atTest' = NoTest
  /\ UNCHANGED <<state, wifiClient, wifiConnected, brightness, overrides,
                 evse, maxHardwareCurrent, triggered, woken, now, nTicks,
                 nSets, seen>>

(* loop() on Off or a self-test step: a single store, ws2812fx.setColor() *)
LoopSingleStore ==
  /\ writing.at = "none"
  /\ LoopState \notin StatusStates
  /\ Loop

(* ledServiceTask: ws2812fx.service() reads the engine, taking no lock *)
Service ==
  /\ seen' = Tuple(fx)
  /\ UNCHANGED <<state, wifiClient, wifiConnected, flashState, brightness,
                 overrides, evse, maxHardwareCurrent, triggered, woken, delay,
                 fx, now, nTicks, nSets, writing, rendered,
                 atTest, lastOp>>

-----------------------------------------------------------------------------
(* The discrete RGB backend: brightness scaling and gamma correction *)

(* gamma8[], indexed from 1 here *)
gamma8 ==
  <<0, 0, 0, 0, 0, 0, 0, 0, 0, 0, 0, 0, 0, 0, 0, 0,
    0, 0, 0, 0, 0, 0, 0, 0, 0, 0, 0, 0, 1, 1, 1, 1,
    1, 1, 1, 1, 1, 1, 1, 1, 1, 2, 2, 2, 2, 2, 2, 2,
    2, 3, 3, 3, 3, 3, 3, 3, 4, 4, 4, 4, 4, 5, 5, 5,
    5, 6, 6, 6, 6, 7, 7, 7, 7, 8, 8, 8, 9, 9, 9, 10,
    10, 10, 11, 11, 11, 12, 12, 13, 13, 13, 14, 14, 15, 15, 16, 16,
    17, 17, 18, 18, 19, 19, 20, 20, 21, 21, 22, 22, 23, 24, 24, 25,
    25, 26, 27, 27, 28, 29, 29, 30, 31, 32, 32, 33, 34, 35, 35, 36,
    37, 38, 39, 39, 40, 41, 42, 43, 44, 45, 46, 47, 48, 49, 50, 50,
    51, 52, 54, 55, 56, 57, 58, 59, 60, 61, 62, 63, 64, 66, 67, 68,
    69, 70, 72, 73, 74, 75, 77, 78, 79, 81, 82, 83, 85, 86, 87, 89,
    90, 92, 93, 95, 96, 98, 99, 101, 102, 104, 105, 107, 109, 110, 112, 114,
    115, 117, 119, 120, 122, 124, 126, 127, 129, 131, 133, 135, 137, 138, 140, 142,
    144, 146, 148, 150, 152, 154, 156, 158, 160, 162, 164, 167, 169, 171, 173, 175,
    177, 180, 182, 184, 186, 189, 191, 193, 196, 198, 200, 203, 205, 208, 210, 213,
    215, 218, 220, 223, 225, 228, 231, 233, 236, 239, 241, 244, 247, 249, 252, 255>>

(* Every channel is scaled whatever the stored brightness *)
scaleChannel_alwaysScales(c, stored) == uint8((c * stored) \div U8Mod)

(* if(brightness) c = (c * brightness) >> 8, the result kept in a uint8_t *)
scaleChannel(c, stored) ==
  IF stored # 0 THEN uint8((c * stored) \div U8Mod) ELSE c

(* setAllRGB(red, green, blue) of the discrete backend: the three channels
   are scaled and the gamma-corrected duty cycles written *)
WriteRGB(red, green, blue) ==
  /\ LET scaled == <<scaleChannel(red, brightness),
                     scaleChannel(green, brightness),
                     scaleChannel(blue, brightness)>>
     IN lastOp' = [op |-> "setAllRGB", ok |-> TRUE,
                   rgb |-> <<red, green, blue>>,
                   scaled |-> scaled,
                   duty |-> [k \in 1 .. 3 |-> gamma8[scaled[k] + 1]]]
  /\ UNCHANGED <<state, wifiClient, wifiConnected, flashState, brightness,
                 overrides, evse, maxHardwareCurrent, triggered, woken, delay,
                 fx, now, nTicks, nSets, writing, seen, rendered>>
  /\ atTest' = atTestKept

-----------------------------------------------------------------------------
(* Collaborators and the public interface *)

(* The EVSE changes state: its onStateChange event triggers the listener
   and wakes the task *)
(* The notification handing the display to the EVSE state at once *)
EvseStateChange_showsEvse(r) ==
  /\ r # evse
  /\ evse' = r
  /\ state' = LedState_Evse_State
  /\ triggered' = TRUE
  /\ woken' = TRUE
  /\ lastOp' = [op |-> "evseStateChange", ok |-> TRUE]
  /\ UNCHANGED <<wifiClient, wifiConnected, flashState, brightness,
                 overrides, maxHardwareCurrent, delay, fx, now, nTicks, nSets,
                 writing, seen, rendered>>
  /\ atTest' = atTestKept

EvseStateChange(r) ==
  /\ r # evse
  /\ evse' = r
  /\ triggered' = TRUE
  /\ woken' = TRUE
  /\ lastOp' = [op |-> "evseStateChange", ok |-> TRUE]
  /\ UNCHANGED <<state, wifiClient, wifiConnected, flashState, brightness,
                 overrides, maxHardwareCurrent, delay, fx, now, nTicks, nSets,
                 writing, seen, rendered>>
  /\ atTest' = atTestKept

(* setWifiMode() arbitrating without a wake, as loop() does *)
SetWifiMode_silent(client, connected) ==
  /\ wifiClient' = client
  /\ wifiConnected' = connected
  /\ state' = setNewState(state, isError(evse), client, connected)
  /\ woken' = wakeAfterNewState(state, state', FALSE, woken)
  /\ lastOp' = [op |-> "setWifiMode", ok |-> TRUE]
  /\ UNCHANGED <<flashState, brightness, overrides, evse, maxHardwareCurrent,
                 triggered, delay, fx, now, nTicks, nSets,
                 writing, seen, rendered>>
  /\ atTest' = atTestKept

SetWifiMode(client, connected) ==
  /\ wifiClient' = client
  /\ wifiConnected' = connected
  /\ state' = setNewState(state, isError(evse), client, connected)
  /\ woken' = wakeAfterNewState(state, state', TRUE, woken)
  /\ lastOp' = [op |-> "setWifiMode", ok |-> TRUE]
  /\ UNCHANGED <<flashState, brightness, overrides, evse, maxHardwareCurrent,
                 triggered, delay, fx, now, nTicks, nSets,
                 writing, seen, rendered>>
  /\ atTest' = atTestKept

Test ==
  /\ state' = LedState_Test_Red
  /\ woken' = TRUE
  /\ atTest' = setNewState(LedState_Off, isError(evse), wifiClient,
                         wifiConnected)
  /\ lastOp' = [op |-> "test", ok |-> TRUE]
  /\ UNCHANGED <<wifiClient, wifiConnected, flashState, brightness, overrides,
                 evse, maxHardwareCurrent, triggered, delay, fx, now, nTicks,
                 nSets,
                 writing, seen, rendered>>

(* clear() drops the overrides along with the display *)
Clear_dropsOverrides ==
  /\ state' = LedState_Off
  /\ overrides' = [i \in Slots |-> ColorOverrideInit]
  /\ woken' = TRUE
  /\ lastOp' = [op |-> "clear", ok |-> TRUE]
  /\ UNCHANGED <<wifiClient, wifiConnected, flashState, brightness, evse,
                 maxHardwareCurrent, triggered, delay, fx, now, nTicks, nSets,
                 writing, seen, rendered>>
  /\ atTest' = atTestKept

Clear ==
  /\ state' = LedState_Off
  /\ woken' = TRUE
  /\ lastOp' = [op |-> "clear", ok |-> TRUE]
  /\ UNCHANGED <<wifiClient, wifiConnected, flashState, brightness, overrides,
                 evse, maxHardwareCurrent, triggered, delay, fx, now, nTicks,
                 nSets,
                 writing, seen, rendered>>
  /\ atTest' = atTestKept

(* testColor() followed by an arbitration that wakes the task *)
TestColor_arbitrates(color) ==
  /\ fx' = [fx EXCEPT !.color = color, !.mode = "STATIC"]
  /\ state' = setNewState(state, isError(evse), wifiClient, wifiConnected)
  /\ woken' = wakeAfterNewState(state, state', TRUE, woken)
  /\ lastOp' = [op |-> "testColor", ok |-> TRUE]
  /\ UNCHANGED <<wifiClient, wifiConnected, flashState, brightness,
                 overrides, evse, maxHardwareCurrent, triggered, delay,
                 now, nTicks, nSets,
                 writing, seen, rendered>>
  /\ atTest' = atTestKept

TestColor(color) ==
  /\ fx' = [fx EXCEPT !.color = color, !.mode = "STATIC"]
  /\ lastOp' = [op |-> "testColor", ok |-> TRUE]
  /\ UNCHANGED <<state, wifiClient, wifiConnected, flashState, brightness,
                 overrides, evse, maxHardwareCurrent, triggered, woken, delay,
                 now, nTicks, nSets,
                 writing, seen, rendered>>
  /\ atTest' = atTestKept

SetBrightness(b) ==
  /\ brightness' = uint8(b + 1)
  /\ fx' = [fx EXCEPT !.brightness = fxBrightnessOf(brightness')]
  /\ woken' = TRUE
  /\ lastOp' = [op |-> "setBrightness", ok |-> TRUE]
  /\ UNCHANGED <<state, wifiClient, wifiConnected, flashState, overrides, evse,
                 maxHardwareCurrent, triggered, delay, now, nTicks, nSets,
                 writing, seen, rendered>>
  /\ atTest' = atTestKept

UpdateColors ==
  /\ state' = setNewState(state, isError(evse), wifiClient, wifiConnected)
  /\ woken' = wakeAfterNewState(state, state', TRUE, woken)
  /\ lastOp' = [op |-> "updateColors", ok |-> TRUE]
  /\ UNCHANGED <<wifiClient, wifiConnected, flashState, brightness, overrides,
                 evse, maxHardwareCurrent, triggered, delay, fx, now, nTicks,
                 nSets,
                 writing, seen, rendered>>
  /\ atTest' = atTestKept

-----------------------------------------------------------------------------
(* Override operations *)

SetColorOverride(stateStr, color, bright, timeout_hours) ==
  /\ nSets < MaxSets
  /\ nSets' = nSets + 1
  /\ LET idx == getOverrideIndex(stateStr)
     IN IF idx < 0
          THEN /\ lastOp' = [op |-> "setColorOverride", ok |-> FALSE]
               /\ UNCHANGED <<state, overrides, woken>>
          ELSE /\ overrides' = storeAfterSet(overrides, idx, color, bright,
                                             timeout_hours, now)
               /\ state' = setNewState(state, isError(evse), wifiClient,
                                       wifiConnected)
               /\ woken' = TRUE
               /\ lastOp' = [op |-> "setColorOverride", ok |-> TRUE]
  /\ UNCHANGED <<wifiClient, wifiConnected, flashState, brightness, evse,
                 maxHardwareCurrent, triggered, delay, fx, now, nTicks,
                 writing, seen, rendered>>
  /\ atTest' = atTestKept

ClearColorOverride(stateStr) ==
  /\ LET idx == getOverrideIndex(stateStr)
     IN IF idx < 0
          THEN /\ lastOp' = [op |-> "clearColorOverride", ok |-> FALSE]
               /\ UNCHANGED <<state, overrides, woken>>
          ELSE /\ overrides' = storeAfterClear(overrides, idx)
               /\ state' = setNewState(state, isError(evse), wifiClient,
                                       wifiConnected)
               /\ woken' = TRUE
               /\ lastOp' = [op |-> "clearColorOverride", ok |-> TRUE]
  /\ UNCHANGED <<wifiClient, wifiConnected, flashState, brightness, evse,
                 maxHardwareCurrent, triggered, delay, fx, now, nTicks, nSets,
                 writing, seen, rendered>>
  /\ atTest' = atTestKept

ClearColorOverrideAll ==
  /\ overrides' = storeAfterClearAll(overrides)
  /\ state' = setNewState(state, isError(evse), wifiClient, wifiConnected)
  /\ woken' = TRUE
  /\ lastOp' = [op |-> "clearColorOverrideAll", ok |-> TRUE]
  /\ UNCHANGED <<wifiClient, wifiConnected, flashState, brightness, evse,
                 maxHardwareCurrent, triggered, delay, fx, now, nTicks, nSets,
                 writing, seen, rendered>>
  /\ atTest' = atTestKept

(* The periodic expiry check *)
CheckOverrideTimeouts ==
  /\ overrides' = checkOverrideTimeouts(overrides, now)
  /\ lastOp' = [op |-> "checkOverrideTimeouts", ok |-> TRUE]
  /\ UNCHANGED <<state, wifiClient, wifiConnected, flashState, brightness,
                 evse, maxHardwareCurrent, triggered, woken, delay, fx, now,
                 nTicks, nSets,
                 writing, seen, rendered>>
  /\ atTest' = atTestKept

(* One resolution of the displayed colour and brightness for a state whose
   normal colour class is lcdCol: expired overrides are dropped first, then
   the store is consulted; the result is what the call returns *)
ResolveOverride(lcdCol) ==
  /\ overrides' = checkOverrideTimeouts(overrides, now)
  /\ lastOp' = [op |-> "resolve", ok |-> TRUE, lcdCol |-> lcdCol,
                color |-> applyColorOverride(overrides', lcdCol),
                brightness |-> getEffectiveBrightness(overrides', lcdCol,
                                                      brightness)]
  /\ UNCHANGED <<state, wifiClient, wifiConnected, flashState, brightness,
                 evse, maxHardwareCurrent, triggered, woken, delay, fx, now,
                 nTicks, nSets,
                 writing, seen, rendered>>
  /\ atTest' = atTestKept

(* _overrides[idx].isExpired() evaluated on its own: nothing is written *)
IsExpired(idx) ==
  /\ lastOp' = [op |-> "isExpired", ok |-> isExpired(overrides[idx], now),
                slot |-> idx]
  /\ UNCHANGED <<state, wifiClient, wifiConnected, flashState, brightness,
                 overrides, evse, maxHardwareCurrent, triggered, woken, delay,
                 fx, now, nTicks, nSets, writing, seen, rendered>>
  /\ atTest' = atTestKept

(* millis() advances *)
Tick(d) ==
  /\ nTicks < MaxTicks
  /\ nTicks' = nTicks + 1
  /\ now' = (now + d) % ULongMod
  /\ lastOp' = [op |-> "tick", ok |-> TRUE]
  /\ UNCHANGED <<state, wifiClient, wifiConnected, flashState, brightness,
                 overrides, evse, maxHardwareCurrent, triggered, woken, delay,
                 fx, nSets,
                 writing, seen, rendered>>
  /\ atTest' = atTestKept

-----------------------------------------------------------------------------
(* Specifications *)

(* What the EVSE usually reports: each condition with its usual colour *)
UsualReports ==
  {[cond |-> "ready", lcdCol |-> OPENEVSE_LCD_GREEN, amps |-> 0],
   [cond |-> "waiting", lcdCol |-> OPENEVSE_LCD_YELLOW, amps |-> 0],
   [cond |-> "charging", lcdCol |-> OPENEVSE_LCD_TEAL, amps |-> 16],
   [cond |-> "error", lcdCol |-> OPENEVSE_LCD_RED, amps |-> 0]}

StoredBrightnesses == {uint8(b + 1) : b \in BrightnessInputs}

(* The LED task with its collaborators: arbitration and rendering *)
Init == InitWith(UsualReports, {32}, {uint8(128 + 1)})

Next ==
  \/ Loop
  \/ \E r \in UsualReports : EvseStateChange(r)
  \/ \E client \in BOOLEAN, connected \in BOOLEAN : SetWifiMode(client, connected)
  \/ Test
  \/ Clear
  \/ UpdateColors

Spec == Init /\ [][Next]_vars

(* The same, the scheduler serving every wake and every delay of the task *)
SpecLive == Init /\ [][Next]_vars /\ WF_vars(Loop)

(* The override store: set, clear and resolve, the clock standing still *)
ReadyReport == CHOOSE r \in UsualReports : r.cond = "ready"

InitStore == InitWith({ReadyReport}, {32}, {uint8(128 + 1)})

NextStore ==
  \/ \E s \in StateStrings, c \in OverrideColours, b \in OverrideBrightnesses :
        SetColorOverride(s, c, b, 0)
  \/ \E s \in StateStrings : ClearColorOverride(s)
  \/ ClearColorOverrideAll
  \/ CheckOverrideTimeouts
  \/ \E c \in LcdColours : ResolveOverride(c)
  \/ \E b \in BrightnessInputs : SetBrightness(b)

SpecStore == InitStore /\ [][NextStore]_vars

(* Expiry: overrides on two slots while the clock advances *)
ExpiryStrings == {"waiting", "all"}
ExpiryColour == rgb(128, 0, 128)
ExpiryClasses == {OPENEVSE_LCD_YELLOW, OPENEVSE_LCD_GREEN}

NextExpiry ==
  \/ \E s \in ExpiryStrings, c \in OverrideColours, h \in TimeoutHours :
        SetColorOverride(s, c, 0, h)
  \/ \E s \in ExpiryStrings : ClearColorOverride(s)
  \/ CheckOverrideTimeouts
  \/ \E c \in ExpiryClasses : ResolveOverride(c)
  \/ \E d \in TickSteps : Tick(d)

SpecExpiry == InitStore /\ [][NextExpiry]_vars

(* Overrides of two categories side by side, set at different times *)
FrameStrings == {"ready", "waiting"}

NextFrame ==
  \/ \E s \in FrameStrings, c \in OverrideColours, h \in TimeoutHours :
        SetColorOverride(s, c, 200, h)
  \/ \E c \in ExpiryClasses : ResolveOverride(c)
  \/ Tick(MS_PER_HOUR \div 3)

SpecFrame == InitStore /\ [][NextFrame]_vars

(* Brightness changes between rendering passes, with and without an
   override on the displayed category *)
NextBrightness ==
  \/ Loop
  \/ \E r \in UsualReports : EvseStateChange(r)
  \/ \E client \in BOOLEAN, connected \in BOOLEAN : SetWifiMode(client, connected)
  \/ \E b \in BrightnessInputs : SetBrightness(b)
  \/ \E b \in OverrideBrightnesses : SetColorOverride("ready", ExpiryColour, b, 0)
  \/ ResolveOverride(OPENEVSE_LCD_GREEN)

SpecBrightness == Init /\ [][NextBrightness]_vars

(* Every operation that may or may not arbitrate, the EVSE being ready or
   faulted *)
PointReports == {r \in UsualReports : r.cond \in {"ready", "error"}}

NextPoints ==
  \/ Loop
  \/ \E r \in PointReports : EvseStateChange(r)
  \/ \E client \in BOOLEAN, connected \in BOOLEAN : SetWifiMode(client, connected)
  \/ SetBrightness(255)
  \/ SetColorOverride("ready", ExpiryColour, 0, 0)
  \/ ClearColorOverride("ready")
  \/ ClearColorOverrideAll
  \/ UpdateColors
  \/ Test
  \/ Clear

SpecPoints == InitStore /\ [][NextPoints]_vars

(* A timed override while the task renders and sleeps *)
WakeReports == {r \in UsualReports : r.cond \in {"ready", "charging"}}

NextWake ==
  \/ Loop
  \/ \E r \in WakeReports : EvseStateChange(r)
  \/ SetWifiMode(TRUE, TRUE)
  \/ SetBrightness(255)
  \/ Test
  \/ Clear
  \/ TestColor(ExpiryColour)
  \/ SetColorOverride("charging", ExpiryColour, 0, 1)
  \/ ClearColorOverride("charging")
  \/ CheckOverrideTimeouts
  \/ Tick(MS_PER_HOUR)

SpecWake == InitStore /\ [][NextWake]_vars

(* Rendering with overrides in the store *)
RenderStrings == {"ready", "charging", "all", "bogus"}

NextRender ==
  \/ Loop
  \/ \E r \in UsualReports : EvseStateChange(r)
  \/ \E client \in BOOLEAN, connected \in BOOLEAN : SetWifiMode(client, connected)
  \/ \E s \in RenderStrings : SetColorOverride(s, ExpiryColour, 200, 0)
  \/ \E s \in RenderStrings : ClearColorOverride(s)
  \/ TestColor(ExpiryColour)

SpecRender == Init /\ [][NextRender]_vars

(* The control task writing the effects engine while the service task
   reads it; the control task's operations are cooperative and run only
   between loop() passes *)

NextService ==
  \/ LoopSetColor
  \/ LoopSetSpeed
  \/ LoopSetMode
  \/ LoopSingleStore
  \/ Service
  \/ writing.at = "none" /\ \E r \in UsualReports : EvseStateChange(r)
  \/ writing.at = "none" /\ \E client \in BOOLEAN, connected \in BOOLEAN :
                               SetWifiMode(client, connected)

SpecService == Init /\ [][NextService]_vars

(* The charging display under every charge current and hardware maximum *)

SpeedCurrents == 0 .. 48
SpeedMaxima == {0, 16, 32}

SpeedReports ==
  {ReadyReport} \cup
  {[cond |-> "charging", lcdCol |-> OPENEVSE_LCD_TEAL, amps |-> a] :
     a \in SpeedCurrents}

InitSpeed == InitWith(SpeedReports, SpeedMaxima, {uint8(128 + 1)})

NextSpeed ==
  \/ Loop
  \/ \E r \in SpeedReports : EvseStateChange(r)
  \/ SetWifiMode(TRUE, TRUE)

SpecSpeed == InitSpeed /\ [][NextSpeed]_vars

(* A timed override left alone while millis() runs on and wraps *)

WrapSteps == {MS_PER_HOUR, ULongMod - MS_PER_HOUR}

NextWrap ==
  \/ \E h \in TimeoutHours : SetColorOverride("waiting", ExpiryColour, 0, h)
  \/ ClearColorOverride("waiting")
  \/ \E i \in {getOverrideIndex("waiting"), AllSlot} : IsExpired(i)
  \/ \E d \in WrapSteps : Tick(d)

SpecWrap == InitStore /\ [][NextWrap]_vars

(* The discrete backend under every brightness and every channel value *)

Bytes == 0 .. (U8Mod - 1)

(* Channel values loop() passes: the ends, the middle and a table colour *)
ChannelValues == {0, 1, 71, 127, 128, 200, 254, 255}

NextPwm ==
  \/ \E b \in Bytes : SetBrightness(b)
  \/ \E c \in ChannelValues : WriteRGB(c, 0, 255)

SpecPwm == InitStore /\ [][NextPwm]_vars

(* Every brightness the slider can pass, while the task renders *)
NextDimmer ==
  \/ Loop
  \/ \E b \in 0 .. (U8Mod - 1) : SetBrightness(b)
  \/ \E client \in BOOLEAN : SetWifiMode(client, TRUE)

SpecDimmer == InitStore /\ [][NextDimmer]_vars

(* The charge display with every combination of isCharging() and isError() *)
ModeReports ==
  UsualReports \cup
  {[cond |-> "faultWhileCharging", lcdCol |-> OPENEVSE_LCD_RED, amps |-> 16]}

InitMode == InitWith(ModeReports, {32}, {uint8(128 + 1)})

NextMode ==
  \/ Loop
  \/ \E r \in ModeReports : EvseStateChange(r)
  \/ \E client \in BOOLEAN, connected \in BOOLEAN : SetWifiMode(client, connected)

SpecMode == InitMode /\ [][NextMode]_vars

(* The colour map under every colour-class code an 8-bit reading can hold *)

ColourCodes == 0 .. (U8Mod - 1)

ColourReports == {[cond |-> "ready", lcdCol |-> code, amps |-> 0] :
                    code \in ColourCodes}

InitColours == InitWith(ColourReports, {32}, {uint8(128 + 1)})

NextColours ==
  \/ Loop
  \/ \E r \in ColourReports : EvseStateChange(r)
  \/ SetWifiMode(TRUE, TRUE)

SpecColours == InitColours /\ [][NextColours]_vars

-----------------------------------------------------------------------------
(* Properties of the priority arbiter *)

(* The slot named after the condition the EVSE is in *)
C1_Slot == getOverrideIndex(evse.cond)

\* C1: whenever loop() has rendered LedState_Evse_State while the EVSE is in
\* condition X (ready, waiting, charging, error) and an override stored under
\* category X is active with no active 'all' override, the rendered colour
\* and brightness are that override's (its brightness when it has one).
C1_CategoryTranslation ==
  ( /\ lastOp.op = "loop"
    /\ state = LedState_Evse_State
    /\ delay = loopDelay(state)
    /\ evse.cond \in EvseConditions
    /\ overrides[C1_Slot].active
    /\ ~overrides[AllSlot].active )
  => /\ fx.color = overrides[C1_Slot].color
     /\ (overrides[C1_Slot].brightness # 0 =>
           fx.brightness = overrides[C1_Slot].brightness)


(* The colour class a state of each category normally shows; the 'all'
   category matches every state *)
ClassOfSlot ==
  [i \in Slots \ {AllSlot} |->
     <<OPENEVSE_LCD_OFF, OPENEVSE_LCD_RED, OPENEVSE_LCD_GREEN,
       OPENEVSE_LCD_YELLOW, OPENEVSE_LCD_TEAL, OPENEVSE_LCD_VIOLET,
       OPENEVSE_LCD_WHITE>>[i + 1]]

Matches(i, lcdCol) == i = AllSlot \/ ClassOfSlot[i] = lcdCol

(* The brightness a resolution returns for a record: its own when it has
   one, else the process-wide one as loop() hands it to the engine *)
BrightnessOf(o, stored) ==
  IF o.brightness # 0 THEN o.brightness
  ELSE IF stored = 0 THEN 255 ELSE stored - 1

C2_Step ==
  /\ \A i \in Slots, c \in OverrideColours, b \in OverrideBrightnesses :
       SetColorOverride(CategoryNames[i + 1], c, b, 0) =>
         /\ lastOp'.ok
         /\ overrides'[i].active
         /\ overrides'[i].color = c
         /\ overrides'[i].brightness = b
  /\ lastOp'.op = "resolve" =>
       \A i \in Slots :
         ( /\ overrides'[i].active
           /\ Matches(i, lastOp'.lcdCol)
           /\ (i = AllSlot \/ ~overrides'[AllSlot].active) )
         => /\ lastOp'.color = overrides'[i].color
            /\ lastOp'.brightness = BrightnessOf(overrides'[i], brightness')

C3_AllSlotWins ==
  (lastOp.op = "resolve" /\ overrides[AllSlot].active) =>
    /\ lastOp.color = overrides[AllSlot].color
    /\ lastOp.brightness = BrightnessOf(overrides[AllSlot], brightness)

(* A resolution for the error colour has returned the 'all' override while
   an 'error' override of another colour and brightness is active *)
C3_Witness ==
  /\ lastOp.op = "resolve"
  /\ lastOp.lcdCol = OPENEVSE_LCD_RED
  /\ overrides[AllSlot].active
  /\ overrides[1].active
  /\ overrides[1].color # overrides[AllSlot].color
  /\ overrides[1].brightness # overrides[AllSlot].brightness
  /\ lastOp.color = overrides[AllSlot].color


(* The names setColorOverride() accepts *)
ValidNames == {"off", "error", "ready", "waiting", "charging", "custom",
               "default", "all"}

C7_Step ==
  /\ \A s \in StateStrings \ ValidNames, c \in OverrideColours,
        b \in OverrideBrightnesses, h \in TimeoutHours :
       SetColorOverride(s, c, b, h) =>
         /\ ~lastOp'.ok
         /\ UNCHANGED <<overrides, state, brightness>>
  /\ (lastOp'.op = "setColorOverride" /\ ~lastOp'.ok) =>
       UNCHANGED <<overrides, state, brightness>>

\* C7: setColorOverride() with a name that is not one of the 8 category
\* names returns false and leaves the 8 override records, the displayed
\* state and the brightness as they were.
C7_InvalidCategoryRejected == [][C7_Step]_vars

(* An unknown name has just been rejected while an override is stored and
   an arbitration would have changed the displayed state *)
C7_Witness ==
  /\ lastOp.op = "setColorOverride"
  /\ ~lastOp.ok
  /\ \E i \in Slots : overrides[i].active
  /\ setNewState(state, isError(evse), wifiClient, wifiConnected) # state

(* The time elapsed since a record was set, on the wrapping clock *)
Elapsed(o, millis) == (millis - o.set_time_ms) % ULongMod

C8_Step ==
  /\ lastOp'.op \in {"resolve", "checkOverrideTimeouts"} =>
       \A i \in Slots :
         (overrides[i].active /\ overrides[i].timeout_ms # 0) =>
           IF Elapsed(overrides[i], now) >= overrides[i].timeout_ms
             THEN ~overrides'[i].active
             ELSE overrides'[i] = overrides[i]
  /\ lastOp'.op = "resolve" =>
       /\ \A i \in Slots :
            ( /\ overrides[i].active /\ overrides[i].timeout_ms # 0
              /\ Elapsed(overrides[i], now) < overrides[i].timeout_ms
              /\ Matches(i, lastOp'.lcdCol)
              /\ (i = AllSlot \/ ~overrides'[AllSlot].active) )
            => lastOp'.color = overrides[i].color
       /\ (\A i \in Slots :
             (overrides[i].active /\ Matches(i, lastOp'.lcdCol)) =>
               /\ overrides[i].timeout_ms # 0
               /\ Elapsed(overrides[i], now) >= overrides[i].timeout_ms)
          => lastOp'.color = status_colour_map(lastOp'.lcdCol)

C9_Step ==
  \A i \in Slots :
    (overrides[i].active /\ overrides[i].timeout_ms = 0) =>
      /\ \A d \in TickSteps \cup {0, ULongMod - 1} :
           ~isExpired(overrides[i], (now + d) % ULongMod)
      /\ (lastOp'.op \in {"tick", "checkOverrideTimeouts", "resolve"} =>
            overrides'[i] = overrides[i])
      /\ (overrides'[i] # overrides[i] =>
            lastOp'.op \in {"setColorOverride", "clearColorOverride"})

\* C9: an override set with timeout 0 is never deactivated by the passage
\* of time: isExpired() is false for every elapsed time, also after the
\* clock has wrapped, and checkOverrideTimeouts() leaves it active; only
\* clearColorOverride() or a replacing setColorOverride() changes it.
C9_ZeroTimeoutNeverExpires == [][C9_Step]_vars

(* The expiry check has just run on an override without timeout after the
   clock has wrapped past the time the override was set *)
C9_Witness ==
  /\ lastOp.op = "checkOverrideTimeouts"
  /\ overrides[3].active
  /\ overrides[3].timeout_ms = 0
  /\ now < overrides[3].set_time_ms

C10_Step ==
  /\ \A i \in Slots :
       ClearColorOverride(CategoryNames[i + 1]) =>
         /\ lastOp'.ok
         /\ ~overrides'[i].active
         /\ \A j \in Slots \ {i} : overrides'[j] = overrides[j]
         /\ (~overrides[i].active => overrides' = overrides)
  /\ ClearColorOverrideAll => \A i \in Slots : ~overrides'[i].active

\* C10: clearColorOverride(category) deactivates that one slot and leaves
\* the other 7 records unchanged; clearColorOverride() without argument
\* deactivates all 8 slots; clearing a slot that is already inactive
\* changes nothing and is not an error.
C10_ClearFrame == [][C10_Step]_vars

(* One slot has just been cleared while two others stay active *)
C10_Witness ==
  /\ lastOp.op = "clearColorOverride"
  /\ lastOp.ok
  /\ Cardinality({i \in Slots : overrides[i].active}) = 2


C11_Step ==
  /\ \A i \in Slots, c \in OverrideColours, b \in OverrideBrightnesses,
        h \in TimeoutHours :
       SetColorOverride(CategoryNames[i + 1], c, b, h) =>
         /\ lastOp'.ok
         /\ overrides'[i] = [active |-> TRUE, color |-> c, brightness |-> b,
                             timeout_ms |-> h * MS_PER_HOUR,
                             set_time_ms |-> now]
         /\ \A j \in Slots \ {i} : overrides'[j] = overrides[j]
  /\ lastOp'.op = "resolve" =>
       \A i \in Slots \ {AllSlot} :
         ( /\ overrides'[i].active
           /\ ClassOfSlot[i] = lastOp'.lcdCol
           /\ ~overrides'[AllSlot].active )
         => lastOp'.color = overrides'[i].color

\* C11: setColorOverride() on a valid category replaces that slot only
\* (active, the new colour, brightness and timeout, set time = now) and
\* leaves the other 7 records unchanged, so overrides of different
\* categories are active together and each is the one a resolution for its
\* own category returns.
C11_SetFrame == [][C11_Step]_vars

(* A resolution for the ready colour has returned the 'ready' override
   while a 'waiting' override of another colour, set at another time, is
   active as well *)
C11_Witness ==
  /\ lastOp.op = "resolve"
  /\ lastOp.lcdCol = OPENEVSE_LCD_GREEN
  /\ overrides[2].active /\ overrides[3].active
  /\ ~overrides[AllSlot].active
  /\ overrides[2].color # overrides[3].color
  /\ overrides[2].set_time_ms # overrides[3].set_time_ms
  /\ lastOp.color = overrides[2].color


(* The brightness a caller passed to setBrightness(), recovered from the
   stored value *)
GlobalBrightness(stored) == (stored + 255) % 256

(* None of the slots in S holds an active override with a brightness of
   its own *)
NoBrightnessOverride(ov, S) ==
  \A i \in S : ov[i].active => ov[i].brightness = 0

(* The slots that count for the condition the EVSE is in *)
SlotsOfCondition(e) ==
  {AllSlot} \cup {i \in Slots \ {AllSlot} : CategoryNames[i + 1] = e.cond}

(* The slots that count for a colour class *)
SlotsOfClass(lcdCol) == {i \in Slots : Matches(i, lcdCol)}

C12_Step ==
  /\ \A b \in BrightnessInputs :
       SetBrightness(b) => GlobalBrightness(brightness') = b
  /\ ( /\ lastOp'.op = "loop"
       /\ state \notin TestStates
       /\ state' # LedState_Off
       /\ NoBrightnessOverride(overrides', SlotsOfCondition(evse')) )
     => fx'.brightness = GlobalBrightness(brightness')
  /\ ( /\ lastOp'.op = "resolve"
       /\ NoBrightnessOverride(overrides', SlotsOfClass(lastOp'.lcdCol)) )
     => lastOp'.brightness = GlobalBrightness(brightness')

\* C12: for a category with no active override, or with one whose
\* brightness field is 0, the brightness of a rendering pass is the
\* process-wide brightness as of that pass: after setBrightness(b) the next
\* pass uses b, with no new setColorOverride() call.
C12_GlobalBrightnessAtRender == [][C12_Step]_vars

(* loop() has rendered the ready state at full brightness, set after the
   'ready' override without brightness was stored *)
C12_Witness ==
  /\ lastOp.op = "loop"
  /\ state = LedState_Evse_State
  /\ evse.cond = "ready"
  /\ overrides[2].active /\ overrides[2].brightness = 0
  /\ brightness = 0
  /\ fx.brightness = 255


NotifyOps == {"setWifiMode", "evseStateChange", "updateColors"}

(* The state the display is handed to when the sequence has reached Off:
   the charge display unless a louder network phase is present *)
AfterSelfTest ==
  IF isError(evse) \/ (wifiClient /\ wifiConnected)
    THEN LedState_Evse_State
    ELSE wifiStateOf(wifiClient, wifiConnected)

C13_Step ==
  /\ Test => (state' = LedState_Test_Red /\ woken')
  /\ (state \in TestStates /\ lastOp'.op = "loop") =>
       /\ delay' = TEST_LED_TIME
       /\ (state = LedState_Test_Red =>
             state' = LedState_Test_Green /\ fx'.color = RED)
       /\ (state = LedState_Test_Green =>
             state' = LedState_Test_Blue /\ fx'.color = GREEN)
       /\ (state = LedState_Test_Blue =>
             state' = AfterSelfTest /\ fx'.color = BLUE)
  /\ (state \in TestStates /\ lastOp'.op \in NotifyOps) => state' = state
  /\ (state' \in TestStates /\ state' # state) =>
       \/ lastOp'.op = "test" /\ state' = LedState_Test_Red
       \/ lastOp'.op = "loop" /\ state' = state + 1

\* C13: once test() has set state to LedState_Test_Red, each loop() pass
\* advances the sequence by one step in the order Red, Green, Blue, Off
\* (from where the same pass hands the display to the arbitrated state) and
\* returns TEST_LED_TIME; no step is skipped, repeated or reordered, whatever
\* setWifiMode() calls and EVSE notifications arrive in between.
C13_SelfTestOrder == [][C13_Step]_vars

(* A self-test started by test() has reached its third step while the EVSE
   reports a fault and the network is connecting, an EVSE notification
   being served by the very pass that made the second step *)
C13_Witness ==
  /\ lastOp.op = "loop"
  /\ state = LedState_Test_Blue
  /\ fx.color = GREEN
  /\ delay = TEST_LED_TIME
  /\ flashState
  /\ isError(evse)
  /\ wifiClient /\ ~wifiConnected

C4_Step ==
  state \in TestStates =>
    /\ (lastOp'.op \in NotifyOps => state' = state)
    /\ (lastOp'.op = "setWifiMode" => woken' = woken)
    /\ (state' \in ({LedState_Evse_State} \cup WiFiStates) =>
          lastOp'.op = "loop" /\ state = LedState_Test_Blue)
    /\ (lastOp'.op = "loop" /\ state # LedState_Test_Blue =>
          state' = state + 1)

\* C4: while state is one of the self-test states, no setWifiMode() call and
\* no EVSE state-change notification (a fault included) changes state:
\* setNewState() leaves it unchanged and setWifiMode() issues no wake; the
\* display passes to LedState_Evse_State or to a WiFi state only by the
\* sequence's own last step in loop().
C4_SelfTestNotUsurped == [][C4_Step]_vars

(* A setWifiMode() call has just been served in the middle of the self-test
   while the EVSE reports a fault *)
C4_Witness ==
  /\ state = LedState_Test_Green
  /\ lastOp.op = "setWifiMode"
  /\ wifiClient /\ ~wifiConnected
  /\ isError(evse)

Arbitrates ==
  \/ lastOp'.op \in {"setWifiMode", "updateColors"} /\ state \notin TestStates
  \/ lastOp'.op = "loop" /\ triggered /\ state \notin TestStates
  \/ lastOp'.op = "loop" /\ state = LedState_Test_Blue

C5_Step == (isError(evse') /\ Arbitrates) => state' = LedState_Evse_State

\* C5: when the EVSE reports a fault and no self-test is in progress, every
\* arbitration (setNewState) yields LedState_Evse_State, for all four
\* combinations of (wifiClient, wifiConnected).
C5_FaultOutranks == [][C5_Step]_vars

(* Arbitration has just preferred the fault display to the flashing
   access-point display *)
C5_Witness ==
  /\ isError(evse)
  /\ lastOp.op = "setWifiMode"
  /\ ~wifiClient /\ ~wifiConnected
  /\ state = LedState_Evse_State

(* The three candidates of an arbitration, in the order self-test, charge,
   network, each with its priority *)
Candidates(st, err, client, connected) ==
  <<[st |-> IF st \in TestStates THEN st ELSE LedState_Off,
     prio |-> IF st \in TestStates THEN 2000 ELSE 0],
    [st |-> LedState_Evse_State, prio |-> IF err THEN 1000 ELSE 50],
    [st |-> wifiStateOf(client, connected),
     prio |-> IF client /\ connected THEN 10 ELSE 100]>>

(* The candidate of greatest priority, the earlier one on a tie *)
Winner(st, err, client, connected) ==
  LET c == Candidates(st, err, client, connected)
      i == CHOOSE k \in 1..3 :
             \A j \in 1..3 : \/ c[k].prio > c[j].prio
                             \/ c[k].prio = c[j].prio /\ k <= j
  IN c[i].st

C6_Step ==
  /\ (lastOp'.op \in {"setWifiMode", "updateColors"} =>
        state' = Winner(state, isError(evse'), wifiClient', wifiConnected'))
  /\ (lastOp'.op = "loop" /\ triggered /\ state \notin TestStates =>
        state' = Winner(state, isError(evse'), wifiClient', wifiConnected'))
  /\ (lastOp'.op = "loop" /\ state = LedState_Test_Blue =>
        state' = Winner(LedState_Off, isError(evse'), wifiClient',
                        wifiConnected'))

\* C6: after setNewState(), state is the candidate of strictly greatest
\* priority among the current self-test state (Off when none runs),
\* LedState_Evse_State at the charge priority and the WiFi state at the
\* network priority; a tie goes to the earlier of self-test, charge, network.
C6_ArbitrationWinner == [][C6_Step]_vars

(* Arbitration has just given the display to the connecting network phase
   over the charging display *)
C6_Witness ==
  /\ lastOp.op = "setWifiMode"
  /\ state = LedState_WiFi_Client_Connecting
  /\ isCharging(evse)

C15_Step ==
  /\ lastOp'.op \in {"setWifiMode", "updateColors"} =>
       LET w == Winner(state, isError(evse'), wifiClient', wifiConnected')
       IN /\ state' = w
          /\ (w # state => woken')
          /\ (w = state => woken' = woken)
  /\ lastOp'.op = "loop" =>
       /\ ~woken'
       /\ (triggered /\ state \notin TestStates =>
             state' = Winner(state, isError(evse'), wifiClient',
                             wifiConnected'))

\* C15: setNewState(wake): when the arbitration winner differs from state,
\* state is updated and, wake being true, a wake of the task is scheduled;
\* with wake false (the calls made by loop()) no wake is scheduled; when the
\* winner equals state, state is left unchanged and no wake is scheduled.
C15_WakeOnChange == [][C15_Step]_vars

(* setWifiMode() has just arbitrated without changing the displayed fault
   state, and no wake is pending *)
C15_Witness ==
  /\ lastOp.op = "setWifiMode"
  /\ state = LedState_Evse_State
  /\ isError(evse)
  /\ wifiClient /\ ~wifiConnected
  /\ ~woken

(* The state an arbitration run by this step leaves behind *)
Arbitrated == Winner(state, isError(evse'), wifiClient', wifiConnected')

(* The operations that run setNewState() when they are called *)
C16_CallersOfSetNewState ==
  /\ (lastOp'.op \in {"setWifiMode", "updateColors"} => state' = Arbitrated)
  /\ ( /\ lastOp'.op \in {"setColorOverride", "clearColorOverride",
                          "clearColorOverrideAll"}
       /\ lastOp'.ok ) => state' = Arbitrated
  /\ (lastOp'.op = "evseStateChange" => triggered' /\ woken')
  /\ (lastOp'.op = "loop" /\ triggered /\ state \notin TestStates =>
        state' = Arbitrated)
  /\ (lastOp'.op = "loop" /\ state = LedState_Test_Blue =>
        state' = Winner(LedState_Off, isError(evse'), wifiClient',
                        wifiConnected'))

(* The original statement of C16: setBrightness() arbitrates as well *)
C16_OriginalStep ==
  /\ C16_CallersOfSetNewState
  /\ (lastOp'.op = "setBrightness" => state' = Arbitrated)

C16_EveryChangeArbitrates == [][C16_OriginalStep]_vars

C16_Step ==
  /\ C16_CallersOfSetNewState
  /\ (lastOp'.op = "setBrightness" => state' = state /\ woken')

\* C16: arbitration (setNewState) is run by the loop() pass that serves an
\* EVSE state-change notification, by every setWifiMode() call, by every
\* override set or clear, and once at the end of the self-test, in the pass
\* of the Blue step; setBrightness() runs no arbitration: it leaves state as
\* it is and wakes the task to render again.
C16_ArbitrationPoints == [][C16_Step]_vars

(* setBrightness() has just been served after clear(): the display stays
   Off although arbitration would give it to the charge or network state *)
C16_Witness ==
  /\ lastOp.op = "setBrightness"
  /\ state = LedState_Off
  /\ Winner(state, isError(evse), wifiClient, wifiConnected) # state
  /\ woken

(* The slots that hold an active override whose deadline is still ahead *)
TimedActive ==
  {i \in Slots : /\ overrides[i].active
                 /\ overrides[i].timeout_ms # 0
                 /\ Elapsed(overrides[i], now) < overrides[i].timeout_ms}

(* The time left to the deadline of a record, in clock units *)
Remaining(o) ==
  IF Elapsed(o, now) >= o.timeout_ms THEN 0
  ELSE o.timeout_ms - Elapsed(o, now)

\* C17: while a timed override is active, the delay loop() returns is finite
\* and no longer than the time left to the soonest override deadline, also
\* when the displayed state is LedState_Evse_State.
C17_WakeBeforeDeadline ==
  (lastOp.op = "loop" /\ TimedActive # {}) =>
    /\ delay # Infinate
    /\ \A i \in TimedActive : delay <= Remaining(overrides[i]) * MillisUnit

(* The operations that may change the override store *)
StoreOps == {"setColorOverride", "clearColorOverride",
             "clearColorOverrideAll", "checkOverrideTimeouts", "resolve"}

C18_Step ==
  /\ (overrides' # overrides => lastOp'.op \in StoreOps)
  /\ \A i \in Slots :
       (overrides[i].active /\ ~overrides'[i].active) =>
         \/ lastOp'.op \in {"clearColorOverride", "clearColorOverrideAll"}
         \/ /\ lastOp'.op \in {"checkOverrideTimeouts", "resolve"}
            /\ overrides[i].timeout_ms # 0
            /\ Elapsed(overrides[i], now) >= overrides[i].timeout_ms

\* C18: the override store is changed only by setColorOverride(),
\* clearColorOverride() and timeout expiry: arbitration, setWifiMode(), EVSE
\* notifications, setBrightness(), test(), clear(), testColor() and the
\* self-test steps leave all 8 records unchanged, so an override persists
\* across changes of the displayed state until it expires or is cleared.
C18_StoreFrame == [][C18_Step]_vars

(* The 'charging' override set during the self-test is still in the store
   after the display has moved on to the charge state and been rendered *)
C18_Witness ==
  /\ lastOp.op = "loop"
  /\ state = LedState_Evse_State
  /\ overrides[4].active
  /\ overrides[4].set_time_ms = 0
  /\ nTicks > 0
  /\ brightness = 0
  /\ fx.mode = "COLOR_WIPE"

(* The configured colours in the order of the colour-class codes *)
C19_Configured ==
  <<led_color_off, led_color_red, led_color_green, led_color_yellow,
    led_color_blue, led_color_violet, led_color_teal, led_color_white>>

(* The colour the table is to give for a code *)
C19_Expected(code) ==
  IF code \in 0 .. 7 THEN C19_Configured[code + 1] ELSE led_color_white

(* loop() has just rendered a status state, not a self-test step or Off *)
C19_Rendered ==
  /\ lastOp'.op = "loop"
  /\ state \notin TestStates
  /\ state' \notin TestStates \cup {LedState_Off}

C19_Step ==
  C19_Rendered =>
    LET code == getStateColour(evse')
    IN /\ fx'.color = C19_Expected(code)
       /\ get_colour_map_entry(code) = fx'.color

\* C19: the colour resolution table is total: for every 8-bit colour-class
\* code the colour loop() renders is the configured colour of OFF, RED,
\* GREEN, YELLOW, BLUE, VIOLET, TEAL or WHITE and the configured white for
\* every other code, and get_colour_map_entry() of the other build variant
\* gives the same colour for the same code.
C19_ColourTableTotal == [][C19_Step]_vars

(* An unknown colour-class code has been rendered as the configured white *)
C19_Witness ==
  /\ lastOp.op = "loop"
  /\ state = LedState_Evse_State
  /\ getStateColour(evse) = 200
  /\ fx.color = led_color_white

C20_Step ==
  lastOp'.op = "testColor" =>
    /\ fx'.color = ExpiryColour
    /\ fx'.mode = "STATIC"
    /\ UNCHANGED <<state, wifiClient, wifiConnected, brightness, flashState,
                   overrides>>
    /\ UNCHANGED <<woken, delay, triggered>>

\* C20: testColor(color) bypasses arbitration: it writes the colour to the
\* backend and leaves state, wifiClient, wifiConnected, brightness,
\* flashState and the override store unchanged; it runs no arbitration and
\* schedules no wake of the task.
C20_TestColorBypasses == [][C20_Step]_vars

(* testColor() has been served while the display is Off and asleep with an
   override in the store, although arbitration would pick another state *)
C20_Witness ==
  /\ lastOp.op = "testColor"
  /\ fx.color = ExpiryColour
  /\ state = LedState_Off
  /\ Winner(state, isError(evse), wifiClient, wifiConnected) # state
  /\ ~woken
  /\ delay = Infinate
  /\ overrides[4].active

(* The network states that flash: access point waiting or connected, client
   connecting *)
FlashingStates ==
  {LedState_WiFi_Access_Point_Waiting, LedState_WiFi_Access_Point_Connected,
   LedState_WiFi_Client_Connecting}

(* The mode and speed by which the effects engine shows a network state *)
WifiIndication(st) ==
  CASE st = LedState_WiFi_Access_Point_Waiting ->
         <<"BLINK", CONNECTING_FX_SPEED>>
    [] st = LedState_WiFi_Access_Point_Connected ->
         <<"FADE", CONNECTED_FX_SPEED>>
    [] st = LedState_WiFi_Client_Connecting ->
         <<"FADE", CONNECTING_FX_SPEED>>
    [] OTHER -> <<"FADE", CONNECTED_FX_SPEED>>

(* loop() has just rendered the state now displayed (the pass was not the
   last self-test step, whose delay is TEST_LED_TIME) *)
RenderedDisplayed ==
  /\ lastOp.op = "loop"
  /\ state \notin TestStates
  /\ delay = loopDelay(state)

\* C21: an active override ranks above the normal state-based colour and
\* below the WiFi status indication: with the 'all' override active, a
\* rendered LedState_Evse_State shows the override's colour, and a rendered
\* flashing network state (access point waiting or connected, client
\* connecting) still shows its WiFi indication, mode and speed.
C21_OverrideBelowWifi ==
  (RenderedDisplayed /\ overrides[AllSlot].active) =>
    /\ (state = LedState_Evse_State =>
          fx.color = overrides[AllSlot].color)
    /\ (state \in FlashingStates =>
          <<fx.mode, fx.speed>> = WifiIndication(state))

(* The network half of C21 alone: the flashing states keep their indication *)
C21_WifiIndicationKept ==
  (RenderedDisplayed /\ state \in FlashingStates) =>
    <<fx.mode, fx.speed>> = WifiIndication(state)

(* The tuple the pass in progress is writing *)
TargetTuple(f, st) ==
  Tuple(renderStatus(f, st, overrides, evse, maxHardwareCurrent, brightness))

C22_Step ==
  /\ (writing.at = "none" /\ writing'.at = "setSpeed") =>
       /\ fx'.color = TargetTuple(fx, state').color
       /\ fx'.speed = fx.speed
       /\ fx'.mode = fx.mode
  /\ (writing.at = "setSpeed" /\ writing'.at = "setMode") =>
       /\ fx'.color = fx.color
       /\ fx'.speed = TargetTuple(fx, state).speed
       /\ fx'.mode = fx.mode
  /\ (writing.at = "setMode" /\ writing'.at = "none") =>
       Tuple(fx') = TargetTuple(fx, state)
  /\ (seen' # seen) => (seen' = Tuple(fx) /\ fx' = fx /\ writing' = writing)

\* C22: on the effects backend loop() writes colour, speed and mode as three
\* separate stores in that order, each leaving the fields not yet written at
\* their previous values, and the service task reads whatever the engine
\* holds at any of these points without synchronisation, so that it can
\* observe a torn tuple: the new colour with the previous state's mode.
C22_TornTupleObservable == [][C22_Step]_vars

(* The service task has read the fault colour together with the steady mode
   of the state shown before, a pair no completed pass leaves behind *)
C22_Witness ==
  /\ writing.at \in {"setSpeed", "setMode"}
  /\ state = LedState_Evse_State
  /\ isError(evse)
  /\ seen = Tuple(fx)
  /\ seen.color = led_color_red
  /\ seen.mode = "STATIC"
  /\ writing.mode = "FADE"

(* Between passes the engine holds the whole tuple of the state rendered *)
C22_WholeBetweenPasses ==
  (writing.at = "none" /\ RenderedDisplayed /\ state \in StatusStates) =>
    Tuple(fx) = TargetTuple(fx, state)

(* loop() has just rendered the charging display *)
RenderedCharging ==
  /\ RenderedDisplayed
  /\ state = LedState_Evse_State
  /\ isCharging(evse)

\* C23: on the effects backend, when getMaxHardwareCurrent() is 0 the speed
\* formula divides by nothing and the charging display is animated at
\* DEFAULT_FX_SPEED (1000), whatever the present charge current is.
C23_ZeroMaximumDefaultSpeed ==
  (RenderedCharging /\ maxHardwareCurrent = 0) =>
    /\ fxSpeedOf(evse.amps, maxHardwareCurrent) = DEFAULT_FX_SPEED
    /\ fx.speed = DEFAULT_FX_SPEED
    /\ fx.mode = "COLOR_WIPE"

(* The charging display has been rendered at a non-zero current with the
   hardware maximum unset *)
C23_Witness ==
  /\ RenderedCharging
  /\ maxHardwareCurrent = 0
  /\ evse.amps = 32
  /\ fx.speed = DEFAULT_FX_SPEED
  /\ fx.mode = "COLOR_WIPE"

(* The priority table as specified *)
C24_Table(st, err) ==
  IF st \in TestStates THEN 2000
  ELSE IF st = LedState_Evse_State THEN (IF err THEN 1000 ELSE 50)
  ELSE IF st \in FlashingStates THEN 100
  ELSE IF st = LedState_WiFi_Client_Connected THEN 10
  ELSE 0

\* C24: getPriority returns 2000 for the three self-test states, 1000 for
\* LedState_Evse_State when isError() and 50 otherwise, 100 for access point
\* waiting, access point connected and client connecting, 10 for client
\* connected and 0 for Off, for the displayed state and for every other
\* state alike; it reads nothing but its argument and isError().
C24_PriorityTable ==
  /\ getPriority(state, isError(evse)) = C24_Table(state, isError(evse))
  /\ \A st \in TestStates \cup StatusStates \cup {LedState_Off} :
       getPriority(st, isError(evse)) = C24_Table(st, isError(evse))

(* Arbitration has given the display to the faulted EVSE over a flashing
   network state: 1000 against 100 *)
C24_Witness ==
  /\ lastOp.op = "loop"
  /\ state = LedState_Evse_State
  /\ isError(evse)
  /\ wifiStateOf(wifiClient, wifiConnected) \in FlashingStates
  /\ getPriority(state, isError(evse)) = 1000
  /\ getPriority(wifiStateOf(wifiClient, wifiConnected), isError(evse)) = 100

C25_Step ==
  \A i \in Slots :
    ( /\ overrides[i].active
      /\ overrides[i].timeout_ms # 0
      /\ isExpired(overrides[i], now)
      /\ overrides'[i] = overrides[i] )
    => isExpired(overrides'[i], now')

\* C25: expiry is monotonic: for an active timed override that is neither
\* set again nor cleared, once isExpired() is true at some time it is true
\* at every later time, millis() and millis() - set_time_ms being unsigned
\* values that wrap.
C25_ExpiryMonotonic == [][C25_Step]_vars

(* isExpired() has returned true for a timed override still in its slot *)
C25_Expired ==
  /\ lastOp.op = "isExpired"
  /\ lastOp.ok
  /\ overrides[lastOp.slot].active

(* The slots whose deadline has elapsed: active, timed and due *)
DueSlots ==
  {i \in Slots : /\ overrides[i].active
                 /\ overrides[i].timeout_ms # 0
                 /\ Elapsed(overrides[i], now) >= overrides[i].timeout_ms}

C26_Step ==
  lastOp'.op = "checkOverrideTimeouts" =>
    /\ \A i \in DueSlots : ~overrides'[i].active
    /\ \A i \in Slots \ DueSlots : overrides'[i] = overrides[i]
    /\ {i \in Slots : overrides'[i] # overrides[i]} = DueSlots

\* C26: checkOverrideTimeouts() deactivates exactly the slots that are
\* active, have timeout_ms # 0 and satisfy (now - set_time_ms) >=
\* timeout_ms; inactive slots, untimed slots and timed slots whose deadline
\* has not elapsed are left unchanged.
C26_ExpiryCheckFrame == [][C26_Step]_vars

(* The expiry check has run with one timed override past its deadline and
   another, set later, still ahead of its own *)
C26_Witness ==
  /\ lastOp.op = "checkOverrideTimeouts"
  /\ nSets = 2
  /\ ~overrides[3].active
  /\ overrides[AllSlot].active
  /\ overrides[AllSlot].timeout_ms # 0
  /\ overrides[AllSlot].set_time_ms # 0
  /\ Elapsed(overrides[AllSlot], now) < overrides[AllSlot].timeout_ms
  /\ now >= MS_PER_HOUR

(* The charging display rendered at a current within the hardware maximum *)
RenderedWithinMaximum ==
  /\ RenderedCharging
  /\ maxHardwareCurrent > 0
  /\ evse.amps \in 0 .. maxHardwareCurrent

\* C27: on the effects backend, with getMaxHardwareCurrent() > 0 and the
\* charge current between 0 and that maximum, the speed of the charging
\* display is the linear interpolation 2000 - 1000 * current / max (to the
\* nearest unit): it lies in 1000..2000, is 2000 at zero current and 1000 at
\* the maximum, and the 16-bit value does not wrap.
C27_LinearSpeed ==
  RenderedWithinMaximum =>
    LET gap == maxHardwareCurrent * (2000 - fx.speed) - 1000 * evse.amps
    IN /\ fx.speed \in 1000 .. 2000
       /\ gap \in (0 - maxHardwareCurrent) .. maxHardwareCurrent
       /\ (evse.amps = 0 => fx.speed = 2000)
       /\ (evse.amps = maxHardwareCurrent => fx.speed = 1000)

(* What the code computes instead: the quotient of the two integers is 0
   below the maximum and 1 at it, so the speed takes only the two end values *)
C27_TwoSpeeds ==
  RenderedWithinMaximum =>
    fx.speed = IF evse.amps = maxHardwareCurrent THEN 1000 ELSE 2000

(* The brightness last passed to setBrightness(), which stored it plus one *)
PassedBrightness == (brightness + U8Mod - 1) % U8Mod

(* What is specified of the scaled value v of channel value c *)
C28_Scaled(c, v) ==
  LET b == PassedBrightness
  IN /\ v = (IF brightness = 0 THEN c ELSE (c * brightness) \div 256)
     /\ v \in 0 .. 255
     /\ v <= c
     /\ (b > 0 => scaleChannel(c, uint8(b)) <= v)
     /\ (b = 255 => v = c)
     /\ (b = 0 => v = 0)
     /\ v + 1 \in DOMAIN gamma8

\* C28: in the discrete RGB backend every channel value c in 0..255 is
\* scaled as (c * s) >> 8 with s the stored brightness (b + 1) mod 256, s = 0
\* meaning no scaling: under every brightness b the scaled value is in
\* 0..255, never greater than c, not smaller than under the next lower
\* brightness, equal to c for b = 255 and to 0 for b = 0, and a valid index
\* into the 256-entry gamma8 table, whose entry is the duty cycle written.
C28_ScaledChannel ==
  /\ Len(gamma8) = 256
  /\ \A c \in Bytes : C28_Scaled(c, scaleChannel(c, brightness))
  /\ lastOp.op = "setAllRGB" =>
       \A k \in 1 .. 3 :
         /\ C28_Scaled(lastOp.rgb[k], lastOp.scaled[k])
         /\ lastOp.duty[k] = gamma8[lastOp.scaled[k] + 1]

(* A channel has been written unscaled at full brightness, the stored
   brightness having rolled over to 0 *)
C28_Witness ==
  /\ lastOp.op = "setAllRGB"
  /\ lastOp.rgb = <<200, 0, 255>>
  /\ PassedBrightness = 255
  /\ brightness = 0
  /\ lastOp.scaled = <<200, 0, 255>>
  /\ lastOp.duty[3] = 255

(* The next-wake delay specified for a rendered state *)
C29_Delay(st) ==
  IF st \in TestStates THEN 500
  ELSE IF st \in {LedState_WiFi_Access_Point_Waiting,
                  LedState_WiFi_Client_Connecting} THEN 450
  ELSE IF st = LedState_WiFi_Access_Point_Connected THEN 250
  ELSE Infinate

C29_Step ==
  lastOp'.op = "loop" =>
    /\ delay' = C29_Delay(LoopState)
    /\ (LoopState \in FlashingStates =>
          /\ state' = LoopState
          /\ delay' # Infinate
          /\ (woken' \/ delay' # Infinate))

\* C29: every loop() pass returns a next-wake delay determined by the state
\* it rendered: TEST_LED_TIME (500) for a self-test step,
\* CONNECTING_FLASH_TIME (450) for access point waiting and client
\* connecting, CONNECTED_FLASH_TIME (250) for access point connected, and
\* sleep-until-woken for Off, Evse_State and client connected; a flashing
\* network state is thus left displayed with a finite delay, so that loop()
\* is due again.
C29_DelayByRenderedState == [][C29_Step]_vars

(* loop() has rendered the access-point-connected state a second time on
   its own 250 ms delay, nothing having woken the task *)
C29_Witness ==
  /\ lastOp.op = "loop"
  /\ state = LedState_WiFi_Access_Point_Connected
  /\ delay = CONNECTED_FLASH_TIME
  /\ ~flashState
  /\ ~woken
  /\ ~triggered
  /\ fx.mode = "FADE"

(* The change of the displayed state in this step is the arbiter's: what
   setNewState() gives from the state displayed before *)
ByArbiter ==
  state' = setNewState(state, isError(evse'), wifiClient', wifiConnected')

C30_OriginalStep ==
  /\ state' \in TestStates \cup StatusStates \cup {LedState_Off}
  /\ (state' # state => ByArbiter)

\* C30: exactly one LedState is displayed at any instant and every change of
\* it is made by the arbiter, setNewState(): the rendering code in loop()
\* and the backend writers never assign state themselves.
C30_OnlyArbiterAssigns == [][C30_OriginalStep]_vars

C30_Step ==
  /\ state' \in TestStates \cup StatusStates \cup {LedState_Off}
  /\ (state' # state =>
        \/ ByArbiter
        \/ lastOp'.op = "test" /\ state' = LedState_Test_Red
        \/ lastOp'.op = "clear" /\ state' = LedState_Off
        \/ /\ lastOp'.op = "loop"
           /\ \/ state = LedState_Test_Red /\ state' = LedState_Test_Green
              \/ state = LedState_Test_Green /\ state' = LedState_Test_Blue
              \/ /\ state = LedState_Test_Blue
                 /\ state' = setNewState(LedState_Off, isError(evse),
                                         wifiClient, wifiConnected))
  /\ (lastOp'.op = "loop" /\ state \notin TestStates /\ state' # state =>
        triggered /\ ByArbiter)

\* C30 (amended): exactly one LedState is displayed at any instant; a change
\* of it is made by the arbiter, by test() (to Test_Red), by clear() (to
\* Off) or by the self-test cases of loop(), which assign the next step
\* themselves (Red to Green, Green to Blue, Blue to Off followed by
\* arbitration); outside the self-test loop() changes the state only
\* through the arbiter when a notification is pending, and the backend
\* writers never assign it.
C30_ArbiterOrSelfTest == [][C30_Step]_vars

(* loop() has just moved the self-test from Red to Green by its own
   assignment, where the arbiter would have kept Red *)
C30_Witness ==
  /\ lastOp.op = "loop"
  /\ state = LedState_Test_Green
  /\ fx.color = RED
  /\ delay = TEST_LED_TIME
  /\ setNewState(LedState_Test_Red, isError(evse), wifiClient,
                 wifiConnected) = LedState_Test_Red

(* A loop() pass is scheduled: a wake is pending or the last delay is finite *)
LoopScheduled == woken \/ delay # Infinate

\* C31: updateColors() wakes the LED task so that the display is rendered
\* again with the newly configured colours: after every updateColors() call
\* a loop() pass is scheduled, also when arbitration leaves the displayed
\* state unchanged.
C31_UpdateColorsWakes ==
  lastOp.op = "updateColors" => LoopScheduled

(* What the code does: the wake depends on the arbiter changing the state *)
C31_Step ==
  lastOp'.op = "updateColors" =>
    woken' = (woken \/ state' # state)

C31_WakesOnChangeOnly == [][C31_Step]_vars

\* C32: no stale display: whenever the displayed state differs from the
\* state the last loop() pass rendered, a wake of the LED task is pending,
\* an immediate one or a finite timed one, under every interleaving of
\* test(), clear(), setWifiMode(), setBrightness() and EVSE notifications.
C32_NoStaleDisplay ==
  (state # rendered) => LoopScheduled

(* The network mode has changed the displayed state after a render that
   left the task asleep, and the task has been woken for it *)
C32_Witness ==
  /\ lastOp.op = "setWifiMode"
  /\ rendered = LedState_Evse_State
  /\ state = LedState_WiFi_Client_Connecting
  /\ delay = Infinate
  /\ woken

\* C33: LedState_WiFi_Client_Connected is never the displayed state: its
\* priority 10 is below the lowest charge priority 50, so arbitration never
\* selects it, and no other operation assigns it.
C33_ClientConnectedNeverShown ==
  /\ state # LedState_WiFi_Client_Connected
  /\ rendered # LedState_WiFi_Client_Connected
  /\ getPriority(LedState_WiFi_Client_Connected, isError(evse)) <
       getPriority(LedState_Evse_State, isError(evse))

(* The network has reported client connected with no fault, and arbitration
   has given the display to the EVSE state *)
C33_Witness ==
  /\ lastOp.op = "setWifiMode"
  /\ wifiStateOf(wifiClient, wifiConnected) = LedState_WiFi_Client_Connected
  /\ ~isError(evse)
  /\ state = LedState_Evse_State

(* The states arbitration can give when no self-test is in progress *)
ArbitratedStates ==
  {LedState_Evse_State, LedState_WiFi_Access_Point_Waiting,
   LedState_WiFi_Access_Point_Connected, LedState_WiFi_Client_Connecting}

C34_Step ==
  /\ (Arbitrates => state' \in ArbitratedStates)
  /\ (state # LedState_Off /\ state' = LedState_Off => lastOp'.op = "clear")
  /\ (state = LedState_Off /\ state' = LedState_Off => ~Arbitrates)

\* C34: right after any setNewState() run while no self-test is in progress
\* the state is Evse_State, WiFi_Access_Point_Waiting,
\* WiFi_Access_Point_Connected or WiFi_Client_Connecting, never Off; the
\* state is Off only from a clear() call until the next arbitration.
C34_OffOnlyAfterClear == [][C34_Step]_vars

(* Off was displayed and rendered after clear(), and the next arbitration
   has taken the display away from it *)
C34_Witness ==
  /\ lastOp.op = "updateColors"
  /\ rendered = LedState_Off
  /\ state = LedState_WiFi_Access_Point_Waiting
  /\ woken

C35_Step ==
  (Arbitrates /\ ~isError(evse')) =>
    LET phase == wifiStateOf(wifiClient', wifiConnected')
    IN /\ (phase \in FlashingStates => state' = phase)
       /\ (state' = LedState_Evse_State =>
             phase = LedState_WiFi_Client_Connected)
       /\ (phase = LedState_WiFi_Client_Connected =>
             state' = LedState_Evse_State)

\* C35: with no fault and no self-test in progress, whenever the network
\* phase is access point waiting, access point connected or client
\* connecting, arbitration selects that network state and not Evse_State,
\* also while the EVSE is charging; without a fault Evse_State is selected
\* only when the network phase is client connected.
C35_NetworkOutranksCharge == [][C35_Step]_vars

(* The loop() pass serving the notification of a charging EVSE has kept the
   display on the connecting network state and rendered it *)
C35_Witness ==
  /\ lastOp.op = "loop"
  /\ isCharging(evse)
  /\ state = LedState_WiFi_Client_Connecting
  /\ rendered = state
  /\ delay = CONNECTING_FLASH_TIME
  /\ fx.color = led_color_teal

(* The states a display outside the self-test can be in *)
SettledStates == {LedState_Off, LedState_Evse_State} \cup WiFiStates

C36_Step ==
  Arbitrates =>
    LET err == isError(evse')
        result == setNewState(LedState_Off, err, wifiClient', wifiConnected')
        again == setNewState(state', err, wifiClient', wifiConnected')
    IN /\ state' = result
       /\ \A prev \in SettledStates :
            setNewState(prev, err, wifiClient', wifiConnected') = result
       /\ again = state'
       /\ wakeAfterNewState(state', again, TRUE, woken') = woken'

\* C36: arbitration is deterministic and history-free: outside a self-test
\* the state setNewState() produces depends only on isError, wifiClient and
\* wifiConnected, never on the state displayed before; a second call with
\* the same inputs leaves the state alone and schedules no wake.
C36_HistoryFree == [][C36_Step]_vars

(* updateColors() called on a rendered display whose inputs have not changed:
   same state, no wake *)
C36_Witness ==
  /\ lastOp.op = "updateColors"
  /\ state = rendered
  /\ state \in SettledStates \ {LedState_Off}
  /\ state = setNewState(LedState_WiFi_Access_Point_Waiting, isError(evse),
                         wifiClient, wifiConnected)
  /\ ~woken

C37_Step ==
  (lastOp'.op = "loop" /\ state = LedState_Test_Blue) =>
    state' = setNewState(LedState_Off, isError(evse'), wifiClient',
                         wifiConnected')

\* C37: signals that change during a self-test are not lost: the loop() pass
\* of the Blue step re-arbitrates, and the state it leaves is the result of
\* arbitration on the current isError, wifiClient and wifiConnected, not on
\* the values they had when the self-test began.
C37_SelfTestKeepsSignals == [][C37_Step]_vars

(* The Blue step has just run after the inputs changed during the self-test,
   and the state left is one the inputs at the start would not have given *)
C37_Witness ==
  /\ lastOp.op = "loop"
  /\ rendered = LedState_Test_Blue
  /\ atTest # NoTest
  /\ state = setNewState(LedState_Off, isError(evse), wifiClient, wifiConnected)
  /\ state # atTest

(* loop() has just rendered a status state on the engine *)
StatusPass == lastOp.op = "loop" /\ rendered \in StatusStates

\* C38: in the effects backend, for every value b in 0..255 passed to
\* setBrightness(), the engine's brightness is b when the call returns (the
\* stored b+1 that wrapped to 0 is mapped back to 255), and every loop() pass
\* that renders a state other than Off or a self-test step applies b again.
C38_EngineBrightness ==
  (lastOp.op = "setBrightness" \/ StatusPass) =>
    /\ fx.brightness = PassedBrightness
    /\ brightness = uint8(fx.brightness + 1)
    /\ (brightness = 0 => fx.brightness = 255)

(* Full brightness was passed, 0 is stored, and a later pass on a status
   state has applied 255 again *)
C38_Witness ==
  /\ StatusPass
  /\ brightness = 0
  /\ fx.brightness = 255
  /\ ~woken

(* The mode and speed the precedence charging, fault, idle gives *)
C39_Animation ==
  IF isCharging(evse)
    THEN <<"COLOR_WIPE", fxSpeedOf(evse.amps, maxHardwareCurrent)>>
  ELSE IF isError(evse) THEN <<"FADE", DEFAULT_FX_SPEED>>
  ELSE <<"STATIC", DEFAULT_FX_SPEED>>

\* C39: in the effects backend a loop() pass rendering Evse_State chooses the
\* animation by the precedence charging, then fault, then idle: COLOR_WIPE
\* at the speed derived from the current if isCharging(), else FADE at
\* DEFAULT_FX_SPEED if isError(), else STATIC at DEFAULT_FX_SPEED; the pass
\* writes exactly that one mode.
C39_ModePrecedence ==
  (lastOp.op = "loop" /\ rendered = LedState_Evse_State) =>
    /\ <<fx.mode, fx.speed>> = C39_Animation
    /\ fx.mode \in {"COLOR_WIPE", "FADE", "STATIC"}
    /\ delay = Infinate

(* Evse_State rendered for an EVSE that is charging and in fault at once:
   the charge animation was written *)
C39_Witness ==
  /\ lastOp.op = "loop"
  /\ rendered = LedState_Evse_State
  /\ isCharging(evse)
  /\ isError(evse)
  /\ fx.mode = "COLOR_WIPE"
  /\ fx.speed = 2000

====
